---- MODULE Spec2Model ----
(***************************************************************************)
(* RangeGuard backend (src/backend/server.py): conflict classification of  *)
(* a route against restricted zones and the notification fan-out that      *)
(* follows a zone creation or a route upload.                              *)
(*                                                                         *)
(* Geometry.  The shapely primitives are modelled on a one-dimensional     *)
(* cross-section of the plane: a polygon is a closed interval [lo, hi] of  *)
(* the line (empty when lo > hi), a route is a monotone polyline on the    *)
(* same line.  Coordinates are integers counted in units of 1/111320       *)
(* degree, so that one unit of distance is what compute_buffer takes for a *)
(* meter.  Lengths, intersections and buffers are then exact integers.     *)
(* Overlap percentages carry one decimal and are held in tenths of a       *)
(* percent (1000 = 100.0).                                                 *)
(***************************************************************************)
EXTENDS Integers, Sequences, FiniteSets, TLC

VARIABLES
    zones,          \* db.zones, in insertion order
    routes,         \* db.routes, in insertion order
    favorites,      \* db.favorites, a set of [user_id, route_id]
    notifications,  \* db.notifications, a set of documents with distinct ids
    zone_tasks,     \* running check_routes_against_new_zone tasks
    upload_tasks,   \* running check_uploaded_route_against_zones tasks
    fanout_log,     \* history: the (route, zone) pairs the fan-outs have finished
    call,           \* a call of check_route_against_zones and what it returned
    update_calls    \* update_zone handlers between their find_one and update_one

vars == <<zones, routes, favorites, notifications, zone_tasks, upload_tasks,
          fanout_log, call, update_calls>>
db_vars == <<zones, routes, favorites, notifications, zone_tasks, upload_tasks,
             fanout_log, update_calls>>

\* ------------------------------------------------------------------ bounds
MaxCoord == 6      \* coordinates range over 0..MaxCoord
MaxBuffer == 2     \* buffer_meters ranges over -1..MaxBuffer
MaxZones == 1      \* zones created in a run of the server
MaxRoutes == 2     \* routes uploaded in a run of the server
MaxFavorites == 2  \* favorite documents stored in a run of the server
MaxTasks == 2      \* background fan-out tasks alive at the same time
MaxUpdates == 2    \* update_zone requests in flight at the same time

\* --------------------------------------------------------- program constants
MetersPerDegree == 111320
\* coordinates are counted in units of 1/CoordUnitsPerDegree degree
CoordUnitsPerDegree == MetersPerDegree

Coords == 0..MaxCoord
BufferMeters == (0 - 1)..MaxBuffer

Min(a, b) == IF a <= b THEN a ELSE b
Max(a, b) == IF a >= b THEN a ELSE b
Abs(a) == IF a >= 0 THEN a ELSE 0 - a

\* ------------------------------------------------------------ value types
\* GeoJSON polygon as stored in a zone document; valid = FALSE is a dict that
\* shapely's shape() rejects.
Polygon(lo, hi) == [valid |-> TRUE, lo |-> lo, hi |-> hi]
EmptyPolygon == Polygon(1, 0)
MalformedPolygon == [valid |-> FALSE, lo |-> 0, hi |-> 0]
IsEmpty(p) == p.lo > p.hi

\* GeoJSON LineString
LineString(pts) == [valid |-> TRUE, pts |-> pts]
MalformedLine == [valid |-> FALSE, pts |-> <<>>]

RECURSIVE SeqMin(_)
SeqMin(s) == IF Len(s) = 1 THEN s[1] ELSE Min(s[1], SeqMin(Tail(s)))
RECURSIVE SeqMax(_)
SeqMax(s) == IF Len(s) = 1 THEN s[1] ELSE Max(s[1], SeqMax(Tail(s)))

IsMonotone(s) ==
    \/ \A i \in 1..(Len(s) - 1) : s[i] <= s[i + 1]
    \/ \A i \in 1..(Len(s) - 1) : s[i] >= s[i + 1]

\* ------------------------------------------------------- geometry kernel
\* shapely: geometry.length of a LineString, the sum of its segment lengths
RECURSIVE LineLength(_)
LineLength(s) ==
    IF Len(s) < 2 THEN 0 ELSE Abs(s[2] - s[1]) + LineLength(Tail(s))

RouteLength(r) == LineLength(r.pts)

\* shapely: a.intersects(b), the two closed sets share a point
Intersects(r, p) ==
    /\ ~IsEmpty(p)
    /\ SeqMin(r.pts) <= p.hi
    /\ SeqMax(r.pts) >= p.lo

\* shapely: polygon.contains(line): no point of the line in the exterior of
\* the polygon and a point of the line's interior in the polygon's interior
\* (a zero-length line is a point and must lie strictly inside).
Contains(p, r) ==
    /\ ~IsEmpty(p)
    /\ p.lo <= SeqMin(r.pts)
    /\ SeqMax(r.pts) <= p.hi
    /\ (SeqMin(r.pts) = SeqMax(r.pts) =>
            (p.lo < SeqMin(r.pts) /\ SeqMax(r.pts) < p.hi))

\* shapely: a.intersection(b).length (0 for an empty or point intersection)
IntersectionLength(r, p) ==
    IF Intersects(r, p)
    THEN Max(0, Min(SeqMax(r.pts), p.hi) - Max(SeqMin(r.pts), p.lo))
    ELSE 0

\* variant that moves the polygon by d instead of growing it
BufferPolygonShifted(p, d) ==
    IF IsEmpty(p)
    THEN EmptyPolygon
    ELSE Polygon(p.lo + d, p.hi + d)

\* shapely: polygon.buffer(d) in coordinate units; a negative distance erodes
\* and may leave nothing
BufferPolygon(p, d) ==
    IF IsEmpty(p) \/ p.lo - d >= p.hi + d
    THEN EmptyPolygon
    ELSE Polygon(p.lo - d, p.hi + d)

\* python: round(num / den * 100, 1) in tenths of a percent, ties to even
RoundTenths(num, den) ==
    LET q == (num * 1000) \div den
        r == (num * 1000) % den
    IN  IF 2 * r < den THEN q
        ELSE IF 2 * r > den THEN q + 1
        ELSE IF q % 2 = 0 THEN q ELSE q + 1

\* ------------------------------------------------------------- timestamps
\* A timestamp is an ISO-8601 string.  Its text is held as the sequence of its
\* two fields, <<local time, UTC offset>>, in the order they are written
\* ("...T11:00:00+02:00" is <<11, 2>>): python and MongoDB compare two such
\* strings field after field, from the left.
Timestamp(local, offset) == <<local, offset>>

\* datetime.now(timezone.utc).isoformat() at instant t
IsoFormat(t) == Timestamp(t, 0)

\* the instant a timestamp denotes: local time less the offset
InstantOf(ts) == ts[1] - ts[2]

\* a <= b on strings ($lte, $gte): lexicographic order of the texts
RECURSIVE StrLeq(_, _)
StrLeq(a, b) ==
    IF a = <<>> THEN TRUE
    ELSE IF b = <<>> THEN FALSE
    ELSE IF Head(a) < Head(b) THEN TRUE
    ELSE IF Head(a) > Head(b) THEN FALSE
    ELSE StrLeq(Tail(a), Tail(b))

\* ------------------------------------------------------------ documents
ZoneDoc(id, geometry, buffered, buffer_meters, start_time, end_time, created_by) ==
    [id |-> id, geometry |-> geometry, buffered_geometry |-> buffered,
     buffer_meters |-> buffer_meters, start_time |-> start_time,
     end_time |-> end_time, created_by |-> created_by]

RouteDoc(id, geometry, user_id) ==
    [id |-> id, geometry |-> geometry, user_id |-> user_id, is_public |-> TRUE]

\* ------------------------------------------------------ zone buffer builder
\* variant that buffers inward: geom.buffer(-buffer_deg)
compute_bufferInward(geometry, buffer_meters) ==
    IF ~geometry.valid
    THEN geometry
    ELSE LET buffer_deg_units ==
                 (buffer_meters * CoordUnitsPerDegree) \div MetersPerDegree
         IN  BufferPolygon(geometry, 0 - buffer_deg_units)

\* compute_buffer: meters to degrees at the equator, then geom.buffer; any
\* exception returns the input geometry
compute_buffer(geometry, buffer_meters) ==
    IF ~geometry.valid
    THEN geometry
    ELSE LET buffer_deg_units ==
                 (buffer_meters * CoordUnitsPerDegree) \div MetersPerDegree
         IN  BufferPolygon(geometry, buffer_deg_units)

\* --------------------------------------------------------- classification
\* check_route_against_zones, per zone
IsContained(route_shape, original_zone_shape, zone_shape) ==
    Contains(original_zone_shape, route_shape) \/ Contains(zone_shape, route_shape)

IsIntersecting(route_shape, zone_shape) == Intersects(route_shape, zone_shape)

IsWithinBuffer(route_shape, original_zone_shape, zone_shape) ==
    (~Intersects(route_shape, original_zone_shape)) /\ Intersects(route_shape, zone_shape)

\* overlap percentage in tenths of a percent
OverlapPct(route_shape, zone_shape) ==
    LET overlap_length == IntersectionLength(route_shape, zone_shape)
        route_length == IF RouteLength(route_shape) > 0
                        THEN RouteLength(route_shape) ELSE 1
    IN  Min(RoundTenths(overlap_length, route_length), 1000)

\* variant of the branch order: the buffer-ring test ahead of containment
ConflictTypeRingFirst(route_shape, original_zone_shape, zone_shape) ==
    IF IsContained(route_shape, original_zone_shape, zone_shape)
       \/ IsIntersecting(route_shape, zone_shape)
    THEN IF IsWithinBuffer(route_shape, original_zone_shape, zone_shape)
         THEN "buffer"
         ELSE IF IsContained(route_shape, original_zone_shape, zone_shape)
         THEN "contained"
         ELSE "intersects"
    ELSE "none"

ConflictType(route_shape, original_zone_shape, zone_shape) ==
    IF IsContained(route_shape, original_zone_shape, zone_shape)
       \/ IsIntersecting(route_shape, zone_shape)
    THEN IF IsContained(route_shape, original_zone_shape, zone_shape)
         THEN "contained"
         ELSE IF IsWithinBuffer(route_shape, original_zone_shape, zone_shape)
         THEN "buffer"
         ELSE "intersects"
    ELSE "none"

\* variant without the 100.0 of the contained branch: the ratio in every branch
ConflictOverlapByRatio(route_shape, original_zone_shape, zone_shape) ==
    OverlapPct(route_shape, zone_shape)

ConflictOverlap(route_shape, original_zone_shape, zone_shape) ==
    IF IsContained(route_shape, original_zone_shape, zone_shape)
    THEN 1000
    ELSE OverlapPct(route_shape, zone_shape)

\* the conflicts one zone adds to the list: none when shape() raises or when
\* the route neither lies in nor meets the buffered zone
ZoneConflicts(route_shape, zone) ==
    IF ~zone.buffered_geometry.valid \/ ~zone.geometry.valid
    THEN <<>>
    ELSE LET zone_shape == zone.buffered_geometry
             original_zone_shape == zone.geometry
             ct == ConflictType(route_shape, original_zone_shape, zone_shape)
         IN  IF ct = "none"
             THEN <<>>
             ELSE << [zone_id |-> zone.id,
                      start_time |-> zone.start_time,
                      end_time |-> zone.end_time,
                      overlap_percentage |->
                          ConflictOverlap(route_shape, original_zone_shape, zone_shape),
                      conflict_type |-> ct,
                      buffer_meters |-> zone.buffer_meters,
                      geometry |-> zone.geometry,
                      buffered_geometry |-> zone.buffered_geometry] >>

\* variant that returns at the first conflict it finds
RECURSIVE check_route_against_zonesFirstHit(_, _)
check_route_against_zonesFirstHit(route_shape, active_zones) ==
    IF active_zones = <<>>
    THEN <<>>
    ELSE IF ZoneConflicts(route_shape, Head(active_zones)) # <<>>
    THEN ZoneConflicts(route_shape, Head(active_zones))
    ELSE check_route_against_zonesFirstHit(route_shape, Tail(active_zones))

\* variant without the try inside the loop: a zone that raises ends the loop
RECURSIVE check_route_against_zonesOneTry(_, _)
check_route_against_zonesOneTry(route_shape, active_zones) ==
    IF active_zones = <<>>
    THEN <<>>
    ELSE IF ~Head(active_zones).buffered_geometry.valid
            \/ ~Head(active_zones).geometry.valid
    THEN <<>>
    ELSE ZoneConflicts(route_shape, Head(active_zones))
         \o check_route_against_zonesOneTry(route_shape, Tail(active_zones))

RECURSIVE check_route_against_zones(_, _)
check_route_against_zones(route_shape, active_zones) ==
    IF active_zones = <<>>
    THEN <<>>
    ELSE ZoneConflicts(route_shape, Head(active_zones))
         \o check_route_against_zones(route_shape, Tail(active_zones))

\* ------------------------------------------------------------- requests
\* The requests of a run.  get_current_user / get_optional_user resolve the
\* bearer token to one of these users; "anonymous" is what upload_route stores
\* for an upload without a token.
Admin == "admin"
NoUser == "none"          \* a request without a bearer token
Uploaders == {"u1", NoUser}
Favoriters == {"u1", "u2"}

\* zone requests: one raw polygon, a buffer of two units, active from instant 0
\* to an instant of Times
ZoneGeometries == {Polygon(3, 5)}
ZoneBuffers == {2}
\* instants: a zone ends at 0 or at 1 and the upload fan-out reads the clock at
\* 1, which gives both outcomes of end_time >= now
Times == {IsoFormat(0), IsoFormat(1)}
ClockReadings == {1}
\* uploaded tracks: inside the raw polygon, crossing it, ending in the buffer
\* ring, and away from the buffered polygon
UploadGeometries == {LineString(<<3, 4>>), LineString(<<0, 4>>),
                     LineString(<<0, 2>>), LineString(<<8, 9>>)}

SeqToSet(s) == {s[i] : i \in 1..Len(s)}

RouteById(id) == CHOOSE r \in SeqToSet(routes) : r.id = id
ZoneById(id) == CHOOSE z \in SeqToSet(zones) : z.id = id

\* ------------------------------------------------------ notification sink
\* variant with a unique key on (user_id, data): a second insert for the same
\* user, route, zone and classification leaves the stored document in place
create_notificationKeyed(user_id, notif_type, title, message, data) ==
    LET same == {n \in notifications : n.user_id = user_id /\ n.data = data}
    IN  IF same # {}
        THEN CHOOSE n \in same : TRUE
        ELSE [id |-> 1, user_id |-> user_id, type |-> notif_type, title |-> title,
              message |-> message, data |-> data, read |-> FALSE]

\* create_notification: the document inserted into db.notifications.  The id is
\* str(uuid.uuid4()), a value no stored notification has; the model takes the
\* fresh value fixed by the document's content (its copy number), so that runs
\* differing only in the uuids drawn are one run.
create_notification(user_id, notif_type, title, message, data) ==
    LET doc == [id |-> 0, user_id |-> user_id, type |-> notif_type, title |-> title,
                message |-> message, data |-> data, read |-> FALSE]
        copies == {n \in notifications : [n EXCEPT !.id = 0, !.read = FALSE] = doc}
    IN  [doc EXCEPT !.id = Cardinality(copies) + 1]

NotifData(route, zone, conflict_type) ==
    [route_id |-> route.id, zone_id |-> zone.id, conflict_type |-> conflict_type,
     zone_start |-> zone.start_time, zone_end |-> zone.end_time]

\* ----------------------------------------------------- zone-creation fan-out
\* check_routes_against_new_zone, the test on one route
FanoutConflictType(route_shape, original_zone_shape, zone_shape) ==
    IF IsContained(route_shape, original_zone_shape, zone_shape)
       \/ IsIntersecting(route_shape, zone_shape)
    THEN IF IsContained(route_shape, original_zone_shape, zone_shape)
         THEN "contained"
         ELSE "intersects"
    ELSE "none"

FanoutOverlapPct(route_shape, original_zone_shape, zone_shape) ==
    IF IsContained(route_shape, original_zone_shape, zone_shape)
    THEN 1000
    ELSE OverlapPct(route_shape, zone_shape)

\* the verdict of the loop body for one route; shape() raising skips the route
RouteVerdict(route, zone) ==
    IF ~route.geometry.valid
    THEN "none"
    ELSE FanoutConflictType(route.geometry, zone.geometry, zone.buffered_geometry)

\* users who favorited the route: db.favorites.find({"route_id": ...})
FavoritersOf(route_id, favs) == {f.user_id : f \in {f \in favs : f.route_id = route_id}}

\* variant without the test of the anonymous sentinel
UsersToNotifyWithSentinel(route, favs) ==
    {route.user_id} \cup FavoritersOf(route.id, favs)

\* owner (unless anonymous) and favoriters, as a set
UsersToNotify(route, favs) ==
    (IF route.user_id # "anonymous" THEN {route.user_id} ELSE {})
    \cup FavoritersOf(route.id, favs)

\* variant that words every notification for the owner
ZoneNotificationOwnerWording(uid, route, zone, conflict_type, overlap_pct) ==
    IF conflict_type = "contained"
    THEN create_notification(uid, "zone_conflict",
             [severity |-> "CRITICAL", who |-> "Your"],
             [who |-> "Your", overlap |-> 0 - 1, advice |-> "do_not_use"],
             NotifData(route, zone, conflict_type))
    ELSE create_notification(uid, "zone_conflict",
             [severity |-> "WARNING", who |-> "Your"],
             [who |-> "Your", overlap |-> overlap_pct, advice |-> "review"],
             NotifData(route, zone, conflict_type))

\* title and message of the notification for one recipient
ZoneNotification(uid, route, zone, conflict_type, overlap_pct) ==
    LET is_owner == uid = route.user_id
        who == IF is_owner THEN "Your" ELSE "Favorite"
    IN  IF conflict_type = "contained"
        THEN create_notification(uid, "zone_conflict",
                 [severity |-> "CRITICAL", who |-> who],
                 [who |-> who, overlap |-> 0 - 1, advice |-> "do_not_use"],
                 NotifData(route, zone, conflict_type))
        ELSE create_notification(uid, "zone_conflict",
                 [severity |-> "WARNING", who |-> who],
                 [who |-> who, overlap |-> overlap_pct, advice |-> "review"],
                 NotifData(route, zone, conflict_type))

\* history entry for a (route, zone) pair a fan-out has finished with
LogEntry(kind, route, zone, conflict_type, favs_read, users, failed) ==
    [kind |-> kind, route |-> route, zone |-> zone, conflict_type |-> conflict_type,
     favs_read |-> favs_read, users |-> users, failed |-> failed]

\* index of the first route from position `from` on that the loop does not skip
RECURSIVE NextConflictRoute(_, _, _)
NextConflictRoute(all_routes, zone, from) ==
    IF from > Len(all_routes) THEN from
    ELSE IF RouteVerdict(all_routes[from], zone) # "none" THEN from
    ELSE NextConflictRoute(all_routes, zone, from + 1)

\* the task after the loop has moved on to position `from`: it runs, without
\* suspending, to its next database call or to its end
ZoneTaskAt(t, all_routes, from) ==
    LET j == NextConflictRoute(all_routes, t.zone, from)
    IN  [task |-> IF j > Len(all_routes)
                  THEN {}
                  ELSE {[zone |-> t.zone, pc |-> "find_favs", all_routes |-> all_routes,
                         idx |-> j,
                         conflict_type |-> RouteVerdict(all_routes[j], t.zone),
                         overlap_pct |-> FanoutOverlapPct(all_routes[j].geometry,
                                            t.zone.geometry, t.zone.buffered_geometry),
                         favs_read |-> {}, users_to_notify |-> {}, remaining |-> {}]},
         skipped |-> {LogEntry("zone", all_routes[i], t.zone, "none", {}, {}, {}) :
                        i \in from..(j - 1)}]

NewZoneTask(zone_doc) ==
    [zone |-> zone_doc, pc |-> "find_routes", all_routes |-> <<>>, idx |-> 0,
     conflict_type |-> "none", overlap_pct |-> 0,
     favs_read |-> {}, users_to_notify |-> {}, remaining |-> {}]

\* fan-out tasks started and not yet ended
LiveTasks == Cardinality(zone_tasks) + Cardinality(upload_tasks)

\* POST /zones by an admin
create_zone(geometry, buffer_meters, start_time, end_time) ==
    /\ Len(zones) < MaxZones
    /\ LiveTasks < MaxTasks
    /\ LET zone_doc == ZoneDoc(Len(zones) + 1, geometry,
                               compute_buffer(geometry, buffer_meters),
                               buffer_meters, start_time, end_time, Admin)
       IN  /\ zones' = Append(zones, zone_doc)
           /\ zone_tasks' = zone_tasks \cup {NewZoneTask(zone_doc)}
    /\ UNCHANGED <<routes, favorites, notifications, upload_tasks, fanout_log, call, update_calls>>

\* the task's first step: shape() of the zone, then db.routes.find
ZoneFanoutFindRoutes(t) ==
    /\ t.pc = "find_routes"
    /\ IF ~t.zone.buffered_geometry.valid \/ ~t.zone.geometry.valid
       THEN /\ zone_tasks' = zone_tasks \ {t}
            /\ UNCHANGED fanout_log
       ELSE LET nxt == ZoneTaskAt(t, routes, 1)
            IN  /\ zone_tasks' = (zone_tasks \ {t}) \cup nxt.task
                /\ fanout_log' = fanout_log \cup nxt.skipped
    /\ UNCHANGED <<zones, routes, favorites, notifications, upload_tasks, call, update_calls>>

\* db.favorites.find for the conflicting route, then the recipient set
ZoneFanoutFindFavs(t) ==
    /\ t.pc = "find_favs"
    /\ LET route == t.all_routes[t.idx]
           users == UsersToNotify(route, favorites)
           nxt == ZoneTaskAt(t, t.all_routes, t.idx + 1)
       IN  IF users = {}
           THEN /\ zone_tasks' = (zone_tasks \ {t}) \cup nxt.task
                /\ fanout_log' = fanout_log \cup nxt.skipped
                       \cup {LogEntry("zone", route, t.zone, t.conflict_type,
                                      favorites, {}, {})}
           ELSE /\ zone_tasks' = (zone_tasks \ {t}) \cup
                       {[t EXCEPT !.pc = "insert", !.favs_read = favorites,
                                  !.users_to_notify = users, !.remaining = users]}
                /\ UNCHANGED fanout_log
    /\ UNCHANGED <<zones, routes, favorites, notifications, upload_tasks, call, update_calls>>

\* create_notification for the next user of the set (a set iterates in any
\* order), the insert succeeding
ZoneFanoutInsert(t, uid) ==
    /\ t.pc = "insert"
    /\ uid \in t.remaining
    /\ LET route == t.all_routes[t.idx]
           nxt == ZoneTaskAt(t, t.all_routes, t.idx + 1)
       IN  /\ notifications' = notifications \cup
                   {ZoneNotification(uid, route, t.zone,
                                     t.conflict_type, t.overlap_pct)}
           /\ IF t.remaining = {uid}
              THEN /\ zone_tasks' = (zone_tasks \ {t}) \cup nxt.task
                   /\ fanout_log' = fanout_log \cup nxt.skipped
                          \cup {LogEntry("zone", route, t.zone, t.conflict_type,
                                         t.favs_read, t.users_to_notify, {})}
              ELSE /\ zone_tasks' = (zone_tasks \ {t}) \cup
                          {[t EXCEPT !.remaining = t.remaining \ {uid}]}
                   /\ UNCHANGED fanout_log
    /\ UNCHANGED <<zones, routes, favorites, upload_tasks, call, update_calls>>

\* variant in which the failure undoes the zone creation that started the task
ZoneFanoutInsertFailsRollback(t, uid) ==
    /\ t.pc = "insert"
    /\ uid \in t.remaining
    /\ zones' = SelectSeq(zones, LAMBDA z : z.id # t.zone.id)
    /\ zone_tasks' = zone_tasks \ {t}
    /\ UNCHANGED <<routes, favorites, notifications, upload_tasks, fanout_log, call,
                   update_calls>>

\* the insert raising: the exception leaves the for-uid loop and is caught by
\* the except of the route's try, which continues with the next route
ZoneFanoutInsertFails(t, uid) ==
    /\ t.pc = "insert"
    /\ uid \in t.remaining
    /\ LET route == t.all_routes[t.idx]
           nxt == ZoneTaskAt(t, t.all_routes, t.idx + 1)
       IN  /\ zone_tasks' = (zone_tasks \ {t}) \cup nxt.task
           /\ fanout_log' = fanout_log \cup nxt.skipped
                  \cup {LogEntry("zone", route, t.zone, t.conflict_type,
                                 t.favs_read, t.users_to_notify, {uid})}
    /\ UNCHANGED <<zones, routes, favorites, notifications, upload_tasks, call, update_calls>>

\* ------------------------------------------------------- route-upload fan-out
\* check_uploaded_route_against_zones, the test on one zone
UploadConflictType(route_shape, original_zone_shape, zone_shape) ==
    IF IsContained(route_shape, original_zone_shape, zone_shape)
       \/ IsIntersecting(route_shape, zone_shape)
    THEN IF IsContained(route_shape, original_zone_shape, zone_shape)
         THEN "contained"
         ELSE "intersects"
    ELSE "none"

\* the verdict of the loop body for one zone; shape() raising skips the zone
ZoneVerdict(route_shape, zone) ==
    IF ~zone.buffered_geometry.valid \/ ~zone.geometry.valid
    THEN "none"
    ELSE UploadConflictType(route_shape, zone.geometry, zone.buffered_geometry)

\* db.zones.find({"end_time": {"$gte": now}})
UpcomingZones(all, now) == SelectSeq(all, LAMBDA z : StrLeq(now, z.end_time))

UploadNotification(user_id, route, zone, conflict_type, overlap_pct) ==
    IF conflict_type = "contained"
    THEN create_notification(user_id, "route_warning",
             [severity |-> "CRITICAL", who |-> "none"],
             [who |-> "Your", overlap |-> 0 - 1, advice |-> "do_not_use"],
             NotifData(route, zone, conflict_type))
    ELSE create_notification(user_id, "route_warning",
             [severity |-> "WARNING", who |-> "none"],
             [who |-> "Your", overlap |-> overlap_pct, advice |-> "avoid"],
             NotifData(route, zone, conflict_type))

RECURSIVE NextConflictZone(_, _, _)
NextConflictZone(route_shape, all_zones, from) ==
    IF from > Len(all_zones) THEN from
    ELSE IF ZoneVerdict(route_shape, all_zones[from]) # "none" THEN from
    ELSE NextConflictZone(route_shape, all_zones, from + 1)

\* the task after the loop has moved on to position `from`
UploadTaskAt(t, all_zones, from) ==
    LET j == NextConflictZone(t.route.geometry, all_zones, from)
    IN  [task |-> IF j > Len(all_zones)
                  THEN {}
                  ELSE {[route |-> t.route, user_id |-> t.user_id, pc |-> "insert",
                         all_zones |-> all_zones, idx |-> j,
                         conflict_type |-> ZoneVerdict(t.route.geometry, all_zones[j]),
                         overlap_pct |-> OverlapPct(t.route.geometry,
                                                    all_zones[j].buffered_geometry)]},
         skipped |-> {LogEntry("upload", t.route, all_zones[i], "none", {}, {}, {}) :
                        i \in from..(j - 1)}]

NewUploadTask(route_doc, user_id) ==
    [route |-> route_doc, user_id |-> user_id, pc |-> "find_zones",
     all_zones |-> <<>>, idx |-> 0, conflict_type |-> "none", overlap_pct |-> 0]

\* variant that starts the fan-out for every upload
StartsUploadFanoutAlways(user, user_id) == TRUE

\* upload_route starts the fan-out only for an authenticated uploader
StartsUploadFanout(user, user_id) == user # NoUser /\ user_id # "anonymous"

\* POST /routes/upload with a GPX track of at least two points; a run uploads
\* each track of UploadGeometries at most once
upload_route(user, geometry) ==
    /\ Len(routes) < MaxRoutes
    /\ \A r \in SeqToSet(routes) : r.geometry # geometry
    /\ LET user_id == IF user # NoUser THEN user ELSE "anonymous"
           route_doc == RouteDoc(Len(routes) + 1, geometry, user_id)
       IN  /\ routes' = Append(routes, route_doc)
           /\ IF StartsUploadFanout(user, user_id)
              THEN /\ LiveTasks < MaxTasks
                   /\ upload_tasks' = upload_tasks \cup {NewUploadTask(route_doc, user_id)}
              ELSE UNCHANGED upload_tasks
    /\ UNCHANGED <<zones, favorites, notifications, zone_tasks, fanout_log, call, update_calls>>

\* the task's first step: shape() of the route, then db.zones.find with the
\* clock read at `now`
UploadFanoutFindZones(t, now) ==
    /\ t.pc = "find_zones"
    /\ IF ~t.route.geometry.valid
       THEN /\ upload_tasks' = upload_tasks \ {t}
            /\ UNCHANGED fanout_log
       ELSE LET nxt == UploadTaskAt(t, UpcomingZones(zones, IsoFormat(now)), 1)
            IN  /\ upload_tasks' = (upload_tasks \ {t}) \cup nxt.task
                /\ fanout_log' = fanout_log \cup nxt.skipped
    /\ UNCHANGED <<zones, routes, favorites, notifications, zone_tasks, call, update_calls>>

\* create_notification for the uploader, the insert succeeding
UploadFanoutInsert(t) ==
    /\ t.pc = "insert"
    /\ LET zone == t.all_zones[t.idx]
           nxt == UploadTaskAt(t, t.all_zones, t.idx + 1)
       IN  /\ notifications' = notifications \cup
                   {UploadNotification(t.user_id, t.route, zone,
                                       t.conflict_type, t.overlap_pct)}
           /\ upload_tasks' = (upload_tasks \ {t}) \cup nxt.task
           /\ fanout_log' = fanout_log \cup nxt.skipped
                  \cup {LogEntry("upload", t.route, zone, t.conflict_type,
                                 {}, {t.user_id}, {})}
    /\ UNCHANGED <<zones, routes, favorites, zone_tasks, call, update_calls>>

\* the insert raising: caught by the except of the zone's try
UploadFanoutInsertFails(t) ==
    /\ t.pc = "insert"
    /\ LET zone == t.all_zones[t.idx]
           nxt == UploadTaskAt(t, t.all_zones, t.idx + 1)
       IN  /\ upload_tasks' = (upload_tasks \ {t}) \cup nxt.task
           /\ fanout_log' = fanout_log \cup nxt.skipped
                  \cup {LogEntry("upload", t.route, zone, t.conflict_type,
                                 {}, {t.user_id}, {t.user_id})}
    /\ UNCHANGED <<zones, routes, favorites, notifications, zone_tasks, call, update_calls>>

\* ---------------------------------------------------------------- favorites
\* POST /favorites/{route_id}
add_favorite(user, route_id) ==
    /\ Cardinality(favorites) < MaxFavorites
    /\ \E r \in SeqToSet(routes) : r.id = route_id
    /\ ~\E f \in favorites : f.user_id = user /\ f.route_id = route_id
    /\ favorites' = favorites \cup {[user_id |-> user, route_id |-> route_id]}
    /\ UNCHANGED <<zones, routes, notifications, zone_tasks, upload_tasks,
                   fanout_log, call, update_calls>>

\* ------------------------------------------------------- on-demand check
\* variant with $lt and $gt: the two ends of the interval left out
ActiveZonesExclusive(all, check_time) ==
    SelectSeq(all, LAMBDA z : StrLeq(z.start_time, check_time)
                              /\ z.start_time # check_time
                              /\ StrLeq(check_time, z.end_time)
                              /\ z.end_time # check_time)

\* db.zones.find({"start_time": {"$lte": t}, "end_time": {"$gte": t}})
ActiveZones(all, check_time) ==
    SelectSeq(all, LAMBDA z : StrLeq(z.start_time, check_time)
                              /\ StrLeq(check_time, z.end_time))

\* variant that looks for an intersects entry before a contained one
SafeMessageIntersectsFirst(conflicts) ==
    IF \E i \in 1..Len(conflicts) : conflicts[i].conflict_type = "intersects"
    THEN "WARNING"
    ELSE IF \E i \in 1..Len(conflicts) : conflicts[i].conflict_type = "contained"
    THEN "CRITICAL"
    ELSE IF conflicts # <<>> THEN "CAUTION"
    ELSE "SAFE"

\* safe_message, by its leading word
SafeMessage(conflicts) ==
    LET has_contained ==
            \E i \in 1..Len(conflicts) : conflicts[i].conflict_type = "contained"
        has_intersect ==
            \E i \in 1..Len(conflicts) : conflicts[i].conflict_type = "intersects"
    IN  IF has_contained THEN "CRITICAL"
        ELSE IF has_intersect THEN "WARNING"
        ELSE IF conflicts # <<>> THEN "CAUTION"
        ELSE "SAFE"

\* what the handler leaves: a response or an HTTPException
Response(route_shape, check_time, active_zones, conflicts, safe_message) ==
    [pc |-> "returned", status |-> 200, route_shape |-> route_shape,
     check_time |-> check_time, active_zones |-> active_zones,
     conflicts |-> conflicts, intersects |-> Len(conflicts) > 0,
     safe_message |-> safe_message, detail |-> ""]

HttpError(status, detail, check_time) ==
    [pc |-> "raised", status |-> status, detail |-> detail,
     route_shape |-> MalformedLine,
     check_time |-> check_time, active_zones |-> <<>>, conflicts |-> <<>>,
     intersects |-> FALSE, safe_message |-> ""]

\* variant that refreshes the cached buffer of every zone it has read, to the
\* raw polygon
check_intersectionRebuffers(req, now) ==
    /\ LET check_time == IF "check_time" \in DOMAIN req
                         THEN req.check_time ELSE IsoFormat(now)
       IN  call' = [req |-> req]
                   @@ Response(MalformedLine, check_time,
                               ActiveZones(zones, check_time), <<>>, "SAFE")
    /\ zones' = [i \in 1..Len(zones) |->
                    [zones[i] EXCEPT !.buffered_geometry = zones[i].geometry]]
    /\ UNCHANGED <<routes, favorites, notifications, zone_tasks, upload_tasks,
                   fanout_log, update_calls>>

\* variant that parses the route geometry before it reads the zones
check_intersectionParseFirst(req, now) ==
    /\ LET check_time == IF "check_time" \in DOMAIN req
                         THEN req.check_time ELSE IsoFormat(now)
           by_id == "route_id" \in DOMAIN req
           found == by_id /\ \E r \in SeqToSet(routes) : r.id = req.route_id
           route_geom_data == IF by_id THEN RouteById(req.route_id).geometry
                              ELSE req.route_geometry
           active_zones == ActiveZones(zones, check_time)
           result ==
             IF by_id /\ ~found THEN HttpError(404, "Route not found", check_time)
             ELSE IF ~by_id /\ "route_geometry" \notin DOMAIN req
             THEN HttpError(400, "No route geometry provided",
                            check_time)
             ELSE IF ~route_geom_data.valid
             THEN HttpError(400, "Invalid route geometry", check_time)
             ELSE IF active_zones = <<>>
             THEN Response(route_geom_data, check_time, <<>>, <<>>, "NO_ACTIVE_ZONES")
             ELSE LET conflicts == check_route_against_zones(route_geom_data, active_zones)
                  IN  Response(route_geom_data, check_time, active_zones, conflicts,
                               SafeMessage(conflicts))
       IN  call' = [req |-> req] @@ result
    /\ UNCHANGED db_vars

\* POST /check-intersection; req is the record of the fields of the body that
\* are set, now the clock reading used when check_time is not
check_intersection(req, now) ==
    /\ LET check_time == IF "check_time" \in DOMAIN req
                         THEN req.check_time ELSE IsoFormat(now)
           by_id == "route_id" \in DOMAIN req
           found == by_id /\ \E r \in SeqToSet(routes) : r.id = req.route_id
           route_geom_data == IF by_id THEN RouteById(req.route_id).geometry
                              ELSE req.route_geometry
           active_zones == ActiveZones(zones, check_time)
           result ==
             IF by_id /\ ~found THEN HttpError(404, "Route not found", check_time)
             ELSE IF ~by_id /\ "route_geometry" \notin DOMAIN req
             THEN HttpError(400, "No route geometry provided",
                            check_time)
             ELSE IF active_zones = <<>>
             THEN Response(route_geom_data, check_time, <<>>, <<>>, "NO_ACTIVE_ZONES")
             ELSE IF ~route_geom_data.valid
             THEN HttpError(400, "Invalid route geometry", check_time)
             ELSE LET conflicts == check_route_against_zones(route_geom_data, active_zones)
                  IN  Response(route_geom_data, check_time, active_zones, conflicts,
                               SafeMessage(conflicts))
       IN  call' = [req |-> req] @@ result
    /\ UNCHANGED db_vars

\* -------------------------------------------------------------- zone edits
\* db.zones.update_one({"id": zone_id}, {"$set": update_data}) on one document
SetFields(doc, update_data) ==
    [k \in DOMAIN doc |-> IF k \in DOMAIN update_data THEN update_data[k] ELSE doc[k]]

\* variant that leaves buffered_geometry out of update_data when the new
\* geometry cannot be buffered
UpdateDataSkipsUnbuffered(zone, data) ==
    IF "geometry" \in DOMAIN data /\ ~data.geometry.valid
    THEN data
    ELSE IF "geometry" \in DOMAIN data
    THEN LET buffer_m == IF "buffer_meters" \in DOMAIN data
                         THEN data.buffer_meters ELSE zone.buffer_meters
         IN  [k \in DOMAIN data \cup {"buffered_geometry"} |->
                 IF k = "buffered_geometry"
                 THEN compute_buffer(data.geometry, buffer_m)
                 ELSE data[k]]
    ELSE IF "buffer_meters" \in DOMAIN data
    THEN [k \in DOMAIN data \cup {"buffered_geometry"} |->
             IF k = "buffered_geometry"
             THEN compute_buffer(zone.geometry, data.buffer_meters)
             ELSE data[k]]
    ELSE data

\* update_data of update_zone: the fields of the request that are not None
\* (data is the record of those fields) and, when geometry or buffer_meters
\* is among them, the buffer recomputed from the document find_one returned
UpdateData(zone, data) ==
    IF "geometry" \in DOMAIN data
    THEN LET buffer_m == IF "buffer_meters" \in DOMAIN data
                         THEN data.buffer_meters ELSE zone.buffer_meters
         IN  [k \in DOMAIN data \cup {"buffered_geometry"} |->
                 IF k = "buffered_geometry"
                 THEN compute_buffer(data.geometry, buffer_m)
                 ELSE data[k]]
    ELSE IF "buffer_meters" \in DOMAIN data
    THEN [k \in DOMAIN data \cup {"buffered_geometry"} |->
             IF k = "buffered_geometry"
             THEN compute_buffer(zone.geometry, data.buffer_meters)
             ELSE data[k]]
    ELSE data

\* PUT /zones/{zone_id} by the admin who created the zone, up to the await of
\* update_one: find_one, the ownership test and update_data
update_zone(user, zone_id, data) ==
    /\ Cardinality(update_calls) < MaxUpdates
    /\ user = Admin
    /\ \E zone \in SeqToSet(zones) :
          /\ zone.id = zone_id
          /\ zone.created_by = user
          /\ LET update_data == UpdateData(zone, data)
             IN  /\ update_data # <<>>
                 /\ update_calls' = update_calls \cup
                        {[zone_id |-> zone_id, update_data |-> update_data]}
    /\ UNCHANGED <<zones, routes, favorites, notifications, zone_tasks, upload_tasks,
                   fanout_log, call>>

\* variant of the update_one step that starts the zone fan-out for the
\* updated zone
UpdateZoneWriteStartsFanout(u) ==
    /\ zones' = [i \in 1..Len(zones) |->
                    IF zones[i].id = u.zone_id
                    THEN SetFields(zones[i], u.update_data)
                    ELSE zones[i]]
    /\ update_calls' = update_calls \ {u}
    /\ zone_tasks' = zone_tasks \cup
           {NewZoneTask(SetFields(z, u.update_data)) :
               z \in {y \in SeqToSet(zones) : y.id = u.zone_id}}
    /\ UNCHANGED <<routes, favorites, notifications, upload_tasks,
                   fanout_log, call>>

\* the update_one of a handler, then its find_one and its response
UpdateZoneWrite(u) ==
    /\ zones' = [i \in 1..Len(zones) |->
                    IF zones[i].id = u.zone_id
                    THEN SetFields(zones[i], u.update_data)
                    ELSE zones[i]]
    /\ update_calls' = update_calls \ {u}
    /\ UNCHANGED <<routes, favorites, notifications, zone_tasks, upload_tasks,
                   fanout_log, call>>

\* ------------------------------------------------------------------ inbox
\* The "id" of a notification is a uuid4 string; the model names a stored
\* notification by the document create_notification inserted for it.
NotifId(n) == [n EXCEPT !.read = FALSE]

NotificationsOf(user) == {n \in notifications : n.user_id = user}

UnreadOf(user) == {n \in notifications : n.user_id = user /\ ~n.read}

\* GET /notifications
get_notifications(user) ==
    /\ call' = [op |-> "get_notifications", pc |-> "returned", status |-> 200,
                user |-> user, result |-> NotificationsOf(user)]
    /\ UNCHANGED db_vars

\* GET /notifications/unread-count
get_unread_count(user) ==
    /\ call' = [op |-> "get_unread_count", pc |-> "returned", status |-> 200,
                user |-> user, count |-> Cardinality(UnreadOf(user))]
    /\ UNCHANGED db_vars

\* variant whose filter is the id alone
mark_notification_readAnyUser(notification_id, user) ==
    LET matched == {n \in notifications : NotifId(n) = notification_id}
        modified == {n \in matched : ~n.read}
    IN  /\ notifications' = (notifications \ modified)
                              \cup {[n EXCEPT !.read = TRUE] : n \in modified}
        /\ call' = [op |-> "mark_notification_read",
                    pc |-> IF modified = {} THEN "raised" ELSE "returned",
                    status |-> IF modified = {} THEN 404 ELSE 200,
                    user |-> user, notification_id |-> notification_id]
        /\ UNCHANGED <<zones, routes, favorites, zone_tasks, upload_tasks, fanout_log,
                       update_calls>>

\* PUT /notifications/{notification_id}/read: update_one with the filter
\* {id, user_id}; modified_count is 0 when nothing matches and when the
\* matched document is read already
mark_notification_read(notification_id, user) ==
    LET matched == {n \in notifications :
                      NotifId(n) = notification_id /\ n.user_id = user}
        modified == {n \in matched : ~n.read}
    IN  /\ notifications' = (notifications \ modified)
                              \cup {[n EXCEPT !.read = TRUE] : n \in modified}
        /\ call' = [op |-> "mark_notification_read",
                    pc |-> IF modified = {} THEN "raised" ELSE "returned",
                    status |-> IF modified = {} THEN 404 ELSE 200,
                    user |-> user, notification_id |-> notification_id]
        /\ UNCHANGED <<zones, routes, favorites, zone_tasks, upload_tasks, fanout_log,
                       update_calls>>

\* variant that uses update_one: only one unread document is marked
mark_all_readOne(user) ==
    /\ IF UnreadOf(user) = {}
       THEN UNCHANGED notifications
       ELSE LET n == CHOOSE n \in UnreadOf(user) : TRUE
            IN  notifications' = (notifications \ {n}) \cup {[n EXCEPT !.read = TRUE]}
    /\ call' = [op |-> "mark_all_read", pc |-> "returned", status |-> 200,
                user |-> user]
    /\ UNCHANGED <<zones, routes, favorites, zone_tasks, upload_tasks, fanout_log,
                   update_calls>>

\* PUT /notifications/read-all: update_many on the caller's unread documents
mark_all_read(user) ==
    /\ notifications' = (notifications \ UnreadOf(user))
                          \cup {[n EXCEPT !.read = TRUE] : n \in UnreadOf(user)}
    /\ call' = [op |-> "mark_all_read", pc |-> "returned", status |-> 200,
                user |-> user]
    /\ UNCHANGED <<zones, routes, favorites, zone_tasks, upload_tasks, fanout_log,
                   update_calls>>

\* DELETE /notifications/{notification_id}: delete_one, the answer is the same
\* whether a document was deleted or not
delete_notification(notification_id, user) ==
    /\ notifications' = {n \in notifications :
                            ~(NotifId(n) = notification_id /\ n.user_id = user)}
    /\ call' = [op |-> "delete_notification", pc |-> "returned", status |-> 200,
                user |-> user, notification_id |-> notification_id]
    /\ UNCHANGED <<zones, routes, favorites, zone_tasks, upload_tasks, fanout_log,
                   update_calls>>

\* ------------------------------------- routes, favorites and zone removal
\* what a handler of this section leaves in call: the operation, its caller,
\* the path parameter and the status and detail of the answer
Answer(op, user, id, status, detail) ==
    [op |-> op, pc |-> IF status = 200 THEN "returned" ELSE "raised",
     status |-> status, detail |-> detail, user |-> user, id |-> id]

\* DELETE /zones/{zone_id}
delete_zone(zone_id, user) ==
    /\ IF user # Admin
       THEN /\ call' = Answer("delete_zone", user, zone_id, 403,
                              "Only admins can delete zones")
            /\ UNCHANGED zones
       ELSE IF ~\E z \in SeqToSet(zones) : z.id = zone_id
       THEN /\ call' = Answer("delete_zone", user, zone_id, 404, "Zone not found")
            /\ UNCHANGED zones
       ELSE IF ZoneById(zone_id).created_by # user
       THEN /\ call' = Answer("delete_zone", user, zone_id, 403,
                              "You can only delete your own zones")
            /\ UNCHANGED zones
       ELSE /\ zones' = SelectSeq(zones, LAMBDA z : z.id # zone_id)
            /\ call' = Answer("delete_zone", user, zone_id, 200, "Zone deleted")
    /\ UNCHANGED <<routes, favorites, notifications, zone_tasks, upload_tasks,
                   fanout_log, update_calls>>

\* PUT /routes/{route_id}/visibility
toggle_route_visibility(route_id, user) ==
    /\ IF ~\E r \in SeqToSet(routes) : r.id = route_id
       THEN /\ call' = Answer("toggle_route_visibility", user, route_id, 404,
                              "Route not found")
            /\ UNCHANGED routes
       ELSE IF RouteById(route_id).user_id # user
       THEN /\ call' = Answer("toggle_route_visibility", user, route_id, 403,
                              "Not your route")
            /\ UNCHANGED routes
       ELSE /\ routes' = [i \in 1..Len(routes) |->
                             IF routes[i].id = route_id
                             THEN [routes[i] EXCEPT !.is_public = ~@]
                             ELSE routes[i]]
            /\ call' = Answer("toggle_route_visibility", user, route_id, 200, "")
    /\ UNCHANGED <<zones, favorites, notifications, zone_tasks, upload_tasks,
                   fanout_log, update_calls>>

\* DELETE /routes/{route_id}
delete_route(route_id, user) ==
    /\ IF ~\E r \in SeqToSet(routes) : r.id = route_id
       THEN /\ call' = Answer("delete_route", user, route_id, 404, "Route not found")
            /\ UNCHANGED routes
       ELSE IF RouteById(route_id).user_id # user
       THEN /\ call' = Answer("delete_route", user, route_id, 403, "Not your route")
            /\ UNCHANGED routes
       ELSE /\ routes' = SelectSeq(routes, LAMBDA r : r.id # route_id)
            /\ call' = Answer("delete_route", user, route_id, 200, "Route deleted")
    /\ UNCHANGED <<zones, favorites, notifications, zone_tasks, upload_tasks,
                   fanout_log, update_calls>>

\* GET /favorites/ids
get_favorite_ids(user) == {f.route_id : f \in {g \in favorites : g.user_id = user}}

\* POST /favorites/{route_id} with its answer, the two rejections included
add_favoriteRequest(route_id, user) ==
    /\ IF ~\E r \in SeqToSet(routes) : r.id = route_id
       THEN /\ call' = Answer("add_favorite", user, route_id, 404, "Route not found")
            /\ UNCHANGED favorites
       ELSE IF \E f \in favorites : f.user_id = user /\ f.route_id = route_id
       THEN /\ call' = Answer("add_favorite", user, route_id, 400,
                              "Already in favorites")
            /\ UNCHANGED favorites
       ELSE /\ favorites' = favorites \cup {[user_id |-> user, route_id |-> route_id]}
            /\ call' = Answer("add_favorite", user, route_id, 200, "")
    /\ UNCHANGED <<zones, routes, notifications, zone_tasks, upload_tasks,
                   fanout_log, update_calls>>

\* variant whose delete takes every favorite of the caller
remove_favoriteAll(route_id, user) ==
    /\ IF ~\E f \in favorites : f.user_id = user /\ f.route_id = route_id
       THEN /\ call' = Answer("remove_favorite", user, route_id, 404,
                              "Not in favorites")
            /\ UNCHANGED favorites
       ELSE /\ favorites' = {f \in favorites : f.user_id # user}
            /\ call' = Answer("remove_favorite", user, route_id, 200,
                              "Removed from favorites")
    /\ UNCHANGED <<zones, routes, notifications, zone_tasks, upload_tasks,
                   fanout_log, update_calls>>

\* DELETE /favorites/{route_id}: delete_one, 404 when deleted_count is 0
remove_favorite(route_id, user) ==
    /\ IF ~\E f \in favorites : f.user_id = user /\ f.route_id = route_id
       THEN /\ call' = Answer("remove_favorite", user, route_id, 404,
                              "Not in favorites")
            /\ UNCHANGED favorites
       ELSE /\ favorites' = favorites \ {[user_id |-> user, route_id |-> route_id]}
            /\ call' = Answer("remove_favorite", user, route_id, 200,
                              "Removed from favorites")
    /\ UNCHANGED <<zones, routes, notifications, zone_tasks, upload_tasks,
                   fanout_log, update_calls>>

\* ------------------------------------------------------------ specification
NoCall == [pc |-> "none", route_shape |-> LineString(<<0, 0>>),
           active_zones |-> <<>>, conflicts |-> <<>>]

InitDb ==
    /\ zones = <<>>
    /\ routes = <<>>
    /\ favorites = {}
    /\ notifications = {}
    /\ zone_tasks = {}
    /\ upload_tasks = {}
    /\ fanout_log = {}
    /\ update_calls = {}

Init ==
    /\ InitDb
    /\ call = NoCall

Next ==
    \/ \E g \in ZoneGeometries, m \in ZoneBuffers, e \in Times : create_zone(g, m, IsoFormat(0), e)
    \/ \E u \in Uploaders, g \in UploadGeometries : upload_route(u, g)
    \/ \E u \in Favoriters, i \in 1..Len(routes) : add_favorite(u, i)
    \/ \E t \in zone_tasks : ZoneFanoutFindRoutes(t)
    \/ \E t \in zone_tasks : ZoneFanoutFindFavs(t)
    \/ \E t \in zone_tasks, u \in Favoriters \cup Uploaders : ZoneFanoutInsert(t, u)
    \/ \E t \in zone_tasks, u \in Favoriters \cup Uploaders : ZoneFanoutInsertFails(t, u)
    \/ \E t \in upload_tasks, now \in ClockReadings : UploadFanoutFindZones(t, now)
    \/ \E t \in upload_tasks : UploadFanoutInsert(t)
    \/ \E t \in upload_tasks : UploadFanoutInsertFails(t)

Spec == Init /\ [][Next]_vars

\* ------------------------------------- an upload and a zone creation together
\* one zone request, with the default kind of buffer or with a negative one
\* (ZoneCreate.buffer_meters is an int nothing constrains), and two tracks of an
\* authenticated user: one crossing the raw polygon, one inside it
RaceBuffers == {2, 0 - 1}
RaceUploads == {LineString(<<0, 4>>), LineString(<<3, 4>>)}

NextRace ==
    \/ \E m \in RaceBuffers : create_zone(Polygon(3, 5), m, IsoFormat(0), IsoFormat(1))
    \/ \E g \in RaceUploads : upload_route("u1", g)
    \/ \E t \in zone_tasks : ZoneFanoutFindRoutes(t)
    \/ \E t \in zone_tasks : ZoneFanoutFindFavs(t)
    \/ \E t \in zone_tasks : ZoneFanoutInsert(t, "u1")
    \/ \E t \in zone_tasks : ZoneFanoutInsertFails(t, "u1")
    \/ \E t \in upload_tasks, now \in ClockReadings : UploadFanoutFindZones(t, now)
    \/ \E t \in upload_tasks : UploadFanoutInsert(t)
    \/ \E t \in upload_tasks : UploadFanoutInsertFails(t)

SpecRace == Init /\ [][NextRace]_vars

\* ------------------------------------------- zone creation and zone edits
\* zone requests of an admin: a polygon or a dict shape() rejects, any order of
\* start_time and end_time (ZoneCreate holds two unconstrained strings)
EditGeometries == {Polygon(3, 5), Polygon(2, 4), MalformedPolygon}
EditBuffers == {0, 2}
EditTimes == {IsoFormat(0), IsoFormat(1)}

\* ZoneUpdate bodies, by the fields that are not None
ZoneUpdates ==
    {[geometry |-> g] : g \in EditGeometries}
    \cup {[buffer_meters |-> m] : m \in EditBuffers}
    \cup {[geometry |-> g, buffer_meters |-> m] : g \in EditGeometries, m \in EditBuffers}
    \cup {[start_time |-> t] : t \in EditTimes}
    \cup {[end_time |-> t] : t \in EditTimes}
    \cup {<<>>}

NextZones ==
    \/ \E g \in EditGeometries, m \in EditBuffers, s \in EditTimes, e \in EditTimes :
          create_zone(g, m, s, e)
    \/ \E user \in {Admin, "u1"}, i \in 1..Len(zones), data \in ZoneUpdates :
          update_zone(user, i, data)
    \/ \E u \in update_calls : UpdateZoneWrite(u)
    \/ \E t \in zone_tasks : ZoneFanoutFindRoutes(t)

SpecZones == Init /\ [][NextZones]_vars

\* C13: every stored zone's buffered_geometry is compute_buffer of its stored
\* geometry and its stored buffer_meters, after any create_zone and update_zone
\* calls, those whose find_one and update_one interleave included.
C13_BufferedConsistent ==
    \A z \in SeqToSet(zones) :
        z.buffered_geometry = compute_buffer(z.geometry, z.buffer_meters)

\* C22: compute_buffer grows the polygon by meters / 111320 degrees and, when
\* the kernel raises on the geometry, returns the geometry as it is: the zone
\* create_zone stores and the update_data update_zone writes then carry a
\* buffered_geometry equal to the raw geometry, and the zone is stored.
C22_BufferFallback ==
    [][/\ Len(zones') = Len(zones) + 1 =>
            LET z == zones'[Len(zones')]
            IN  IF z.geometry.valid
                THEN /\ z.buffered_geometry.valid
                     /\ z.buffered_geometry.lo * MetersPerDegree
                          = z.geometry.lo * MetersPerDegree
                            - z.buffer_meters * CoordUnitsPerDegree
                     /\ z.buffered_geometry.hi * MetersPerDegree
                          = z.geometry.hi * MetersPerDegree
                            + z.buffer_meters * CoordUnitsPerDegree
                ELSE z.buffered_geometry = z.geometry
       /\ \A u \in update_calls' \ update_calls :
            LET raw == IF "geometry" \in DOMAIN u.update_data
                       THEN u.update_data.geometry
                       ELSE ZoneById(u.zone_id).geometry
            IN  ("buffered_geometry" \in DOMAIN u.update_data /\ ~raw.valid)
                   => u.update_data.buffered_geometry = raw
       /\ \A u \in update_calls' \ update_calls :
            ("geometry" \in DOMAIN u.update_data
               \/ "buffer_meters" \in DOMAIN u.update_data)
                 => "buffered_geometry" \in DOMAIN u.update_data
       /\ \A u \in update_calls \ update_calls' :
            \A i \in 1..Len(zones) :
                zones[i].id = u.zone_id =>
                    \A k \in DOMAIN u.update_data : zones'[i][k] = u.update_data[k]
      ]_vars

\* a zone stored with a geometry the kernel rejects, its buffered_geometry the
\* same dict, and an update_zone that is about to write another such geometry
C22_Witness ==
    /\ \E z \in SeqToSet(zones) : ~z.geometry.valid /\ z.buffered_geometry = z.geometry
    /\ \E u \in update_calls :
          /\ "geometry" \in DOMAIN u.update_data
          /\ ~u.update_data.geometry.valid
          /\ u.update_data.buffered_geometry = u.update_data.geometry

\* C20: every stored zone has start_time <= end_time.
C20_OrderedInterval ==
    \A z \in SeqToSet(zones) : InstantOf(z.start_time) <= InstantOf(z.end_time)

\* ---------------------------------------------------- claims on the fan-out
\* the verdict of section 4.3 for a route and a zone document
SpecVerdict(route_shape, zone) ==
    IF Contains(zone.geometry, route_shape)
       \/ Contains(zone.buffered_geometry, route_shape)
    THEN "Contained"
    ELSE IF Intersects(route_shape, zone.geometry) THEN "Intersects"
    ELSE IF Intersects(route_shape, zone.buffered_geometry) THEN "BufferOnly"
    ELSE "None"

\* min(100, round(len(route /\ p) / effective length * 100, 1)), in tenths
SpecOverlapOn(route_shape, p) ==
    Min(RoundTenths(IntersectionLength(route_shape, p),
                    IF RouteLength(route_shape) > 0
                    THEN RouteLength(route_shape) ELSE 1),
        1000)

NotifsFor(type, route_id, zone_id) ==
    {n \in notifications : /\ n.type = type
                           /\ n.data.route_id = route_id
                           /\ n.data.zone_id = zone_id}

NotifVerdict(n) ==
    SpecVerdict(RouteById(n.data.route_id).geometry, ZoneById(n.data.zone_id))

\* owner and favoriters read for the pair, without the anonymous sentinel
ExpectedRecipients(e) ==
    ({e.route.user_id}
        \cup {f.user_id : f \in {f \in e.favs_read : f.route_id = e.route.id}})
    \ {"anonymous"}

\* C1: every notification of the zone-creation fan-out refers to a route that is
\* Contained in the new zone or intersects its raw polygon, never to a route
\* whose verdict is BufferOnly.
C1_NoBufferOnlyDraft ==
    \A n \in notifications :
        n.type = "zone_conflict" => NotifVerdict(n) \in {"Contained", "Intersects"}

\* C2: for every zone the upload fan-out went through, exactly one notification
\* is written when the verdict is Contained or Intersects, with that verdict in
\* the payload, and none when it is BufferOnly or None.
C2_UploadOneDraftPerConflict ==
    \A e \in fanout_log :
        (e.kind = "upload" /\ e.failed = {}) =>
            LET v == SpecVerdict(e.route.geometry, e.zone)
                ns == NotifsFor("route_warning", e.route.id, e.zone.id)
            IN  IF v = "Contained"
                THEN Cardinality(ns) = 1
                     /\ \A n \in ns : n.data.conflict_type = "contained"
                ELSE IF v = "Intersects"
                THEN Cardinality(ns) = 1
                     /\ \A n \in ns : n.data.conflict_type = "intersects"
                ELSE ns = {}

\* C3: a notification of the route-upload path is addressed to the uploader of
\* its route, who is authenticated, and to nobody else; no upload fan-out runs
\* for an anonymous upload.
C3_UploadNotifiesUploaderOnly ==
    /\ \A n \in notifications :
          n.type = "route_warning" =>
              /\ n.user_id = RouteById(n.data.route_id).user_id
              /\ n.user_id # "anonymous"
    /\ \A t \in upload_tasks :
          t.route.user_id # "anonymous" /\ t.user_id = t.route.user_id

\* all fan-outs have ended; an anonymous route uploaded after the fan-out of an
\* upcoming zone it conflicts with has no notification, while the uploader of a
\* route that somebody else favorited has one
C3_Witness ==
    /\ zone_tasks = {} /\ upload_tasks = {}
    /\ \E r \in SeqToSet(routes), z \in SeqToSet(zones) :
          /\ r.user_id = "anonymous"
          /\ \E e \in fanout_log : e.kind = "zone" /\ e.zone.id = z.id
          /\ \A e \in fanout_log :
                (e.kind = "zone" /\ e.zone.id = z.id) => e.route.id # r.id
          /\ \E now \in ClockReadings : StrLeq(IsoFormat(now), z.end_time)
          /\ SpecVerdict(r.geometry, z) \in {"Contained", "Intersects"}
          /\ NotifsFor("route_warning", r.id, z.id) = {}
    /\ \E n \in notifications :
          /\ n.type = "route_warning"
          /\ \E f \in favorites : f.route_id = n.data.route_id /\ f.user_id # n.user_id

\* C4: for a route the zone-creation fan-out found in conflict, the users to
\* notify are the owner and the favoriters read for the route, without the
\* anonymous sentinel; when no insert failed each of them holds exactly one
\* notification for the (route, zone) pair and nobody else holds any.
C4_RecipientsExactlyOnce ==
    \A e \in fanout_log :
        (e.kind = "zone" /\ e.conflict_type # "none") =>
            /\ e.users = ExpectedRecipients(e)
            /\ e.failed = {} =>
                 \A u \in Favoriters \cup Uploaders \cup {"anonymous", Admin} :
                    Cardinality({n \in NotifsFor("zone_conflict", e.route.id, e.zone.id) :
                                    n.user_id = u})
                        = IF u \in ExpectedRecipients(e) THEN 1 ELSE 0

\* an owner who favorited their own route, beside another favoriter
C4_Witness ==
    \E e \in fanout_log :
        /\ e.kind = "zone" /\ e.conflict_type # "none" /\ e.failed = {}
        /\ \E f \in e.favs_read : f.route_id = e.route.id /\ f.user_id = e.route.user_id
        /\ Cardinality(e.users) = 2

\* C5: in the zone-creation fan-out the owner gets the "Your" wording and any
\* other recipient the "Favorite" wording; Contained gives CRITICAL / do not use,
\* Intersects gives WARNING / review with the overlap percentage the fan-out
\* computed (it measures it on the buffered polygon); the recipients of one
\* (route, zone) pair get the same classification.
C5_ContentByRoleAndVerdict ==
    \A n \in notifications :
        n.type = "zone_conflict" =>
            LET r == RouteById(n.data.route_id)
                z == ZoneById(n.data.zone_id)
                who == IF n.user_id = r.user_id THEN "Your" ELSE "Favorite"
            IN  /\ n.title.who = who /\ n.message.who = who
                /\ NotifVerdict(n) = "Contained" =>
                      /\ n.title.severity = "CRITICAL"
                      /\ n.message.advice = "do_not_use"
                      /\ n.data.conflict_type = "contained"
                /\ NotifVerdict(n) = "Intersects" =>
                      /\ n.title.severity = "WARNING"
                      /\ n.message.advice = "review"
                      /\ n.message.overlap = SpecOverlapOn(r.geometry, z.buffered_geometry)
                      /\ n.data.conflict_type = "intersects"
                /\ n.title.severity = "CRITICAL" <=> n.data.conflict_type = "contained"
                /\ \A m \in NotifsFor("zone_conflict", r.id, z.id) :
                      m.data.conflict_type = n.data.conflict_type

\* the owner holds a CRITICAL "Your route" notification and a favoriter a
\* WARNING "Favorite route" notification with a positive overlap
C5_Witness ==
    /\ \E n \in notifications :
          /\ n.type = "zone_conflict" /\ n.title.who = "Your"
          /\ n.title.severity = "CRITICAL"
    /\ \E n \in notifications :
          /\ n.type = "zone_conflict" /\ n.title.who = "Favorite"
          /\ NotifVerdict(n) = "Intersects"
          /\ n.title.severity = "WARNING" /\ n.message.overlap > 0

\* C12: create_zone and upload_route store their document and return it with
\* the fan-out task started and not yet run; no later step of a fan-out, failed
\* inserts included, changes a stored zone or route, so the response is the
\* same whatever the fan-out does.
C12_FireAndForget ==
    [][/\ Len(zones') > Len(zones) =>
            /\ zone_tasks' = zone_tasks \cup {NewZoneTask(zones'[Len(zones')])}
            /\ NewZoneTask(zones'[Len(zones')]) \notin zone_tasks
            /\ SubSeq(zones', 1, Len(zones)) = zones
            /\ notifications' = notifications /\ fanout_log' = fanout_log
       /\ Len(routes') > Len(routes) =>
            /\ LET r == routes'[Len(routes')]
               IN  upload_tasks' = upload_tasks \cup
                       (IF r.user_id # "anonymous"
                        THEN {NewUploadTask(r, r.user_id)} ELSE {})
            /\ SubSeq(routes', 1, Len(routes)) = routes
            /\ notifications' = notifications /\ fanout_log' = fanout_log
       /\ Len(zones') <= Len(zones) => zones' = zones
       /\ Len(routes') <= Len(routes) => routes' = routes
      ]_vars

\* a zone and a route are stored, the fan-out of one has had an insert fail and
\* the task of the other has not run yet
C12_Witness ==
    /\ \E e \in fanout_log :
          e.failed # {} /\ e.zone \in SeqToSet(zones) /\ e.route \in SeqToSet(routes)
    /\ \E t \in zone_tasks \cup upload_tasks : t.pc \in {"find_routes", "find_zones"}
    /\ zones # <<>> /\ routes # <<>>

\* C19: nothing deduplicates notifications: every insert of a fan-out is stored
\* whatever the store holds, so for every pair finished without a failed
\* insert each user to notify holds the notification of that fan-out, also
\* when the other fan-out has notified the same user of the same (route,
\* zone, classification).
C19_NoDeduplication ==
    \A e \in fanout_log :
        e.failed = {} =>
            \A u \in e.users :
                \E n \in NotifsFor(IF e.kind = "zone" THEN "zone_conflict"
                                    ELSE "route_warning", e.route.id, e.zone.id) :
                    n.user_id = u /\ n.data.conflict_type = e.conflict_type

\* two stored notifications with equal (user_id, route_id, zone_id,
\* conflict_type), one from each fan-out
C19_Witness ==
    \E n \in notifications, m \in notifications :
        /\ n # m
        /\ n.type = "zone_conflict" /\ m.type = "route_warning"
        /\ n.user_id = m.user_id
        /\ n.data = m.data

RECURSIVE SumRecipients(_)
SumRecipients(es) ==
    IF es = {} THEN 0
    ELSE LET e == CHOOSE x \in es : TRUE
         IN  Cardinality(ExpectedRecipients(e)) + SumRecipients(es \ {e})

\* C6: once the fan-out of a zone has ended without a failed insert, no
\* notification refers to a route whose verdict is None and the number of
\* notifications written equals the sum, over the routes with verdict Contained
\* or Intersects, of the size of the route's recipient set.
C6_DraftCount ==
    \A z \in SeqToSet(zones) :
        LET es == {e \in fanout_log : e.kind = "zone" /\ e.zone.id = z.id}
            ns == {n \in notifications : n.type = "zone_conflict" /\ n.data.zone_id = z.id}
        IN  ((\A t \in zone_tasks : t.zone.id # z.id) /\ (\A e \in es : e.failed = {})) =>
                /\ \A n \in ns : NotifVerdict(n) # "None"
                /\ Cardinality(ns) =
                       SumRecipients({e \in es : SpecVerdict(e.route.geometry, z)
                                                    \in {"Contained", "Intersects"}})

\* C10: a failed insert does not abort the sibling drafts: every user to notify
\* for a pair the fan-out has finished with (verdict Contained or Intersects),
\* other than a user whose own insert failed, holds the notification for the pair.
C10_SinkFailureIsolated ==
    \A e \in fanout_log :
        SpecVerdict(e.route.geometry, e.zone) \in {"Contained", "Intersects"} =>
        \A u \in e.users \ e.failed :
            \E n \in NotifsFor(IF e.kind = "zone" THEN "zone_conflict" ELSE "route_warning",
                               e.route.id, e.zone.id) : n.user_id = u

\* ------------------------------------- checks against zones already stored
\* zones an admin has created before the run starts: a polygon with its buffer
\* (also a negative one, and a dict shape() rejects) and an active interval
SeedShapes == {<<Polygon(3, 5), 2>>, <<Polygon(4, 6), 0>>,
               <<Polygon(3, 5), 0 - 1>>, <<MalformedPolygon, 2>>}

\* <<start_time, end_time>>: around the clock readings, ended, still to come,
\* and written by a client one hour east of UTC for the instant 0
SeedIntervals == {<<IsoFormat(0), IsoFormat(2)>>, <<IsoFormat(0), IsoFormat(0)>>,
                  <<IsoFormat(2), IsoFormat(2)>>,
                  <<Timestamp(1, 1), Timestamp(1, 1)>>}

SeedZone(id, sh, iv) ==
    ZoneDoc(id, sh[1], compute_buffer(sh[1], sh[2]), sh[2], iv[1], iv[2], Admin)

\* no zone, one zone, or one zone followed by a second one that is well formed
SeedZoneLists ==
    {<<>>}
    \cup {<<SeedZone(1, sh, iv)>> : sh \in SeedShapes, iv \in SeedIntervals}
    \cup {<<SeedZone(1, sh, iv), w>> :
            sh \in SeedShapes, iv \in SeedIntervals,
            w \in {SeedZone(2, <<Polygon(3, 5), 2>>, <<IsoFormat(0), IsoFormat(2)>>),
                   SeedZone(2, <<Polygon(4, 6), 0>>, <<IsoFormat(0), IsoFormat(2)>>),
                   SeedZone(2, <<Polygon(3, 5), 2>>, <<Timestamp(1, 1), Timestamp(1, 1)>>)}}

InitSeeded ==
    /\ zones \in SeedZoneLists
    /\ routes = <<>>
    /\ favorites = {}
    /\ notifications = {}
    /\ zone_tasks = {}
    /\ upload_tasks = {}
    /\ fanout_log = {}
    /\ update_calls = {}
    /\ call = NoCall

\* bodies of POST /check-intersection: a stored route (or an id nothing is
\* stored under), a geometry, or neither, with or without a check_time
CheckRoutes ==
    {[route_id |-> i] : i \in 1..(Len(routes) + 1)}
    \cup {[route_geometry |-> g] : g \in {LineString(<<3, 4>>), MalformedLine}}
    \cup {<<>>}

CheckTimes == {<<>>, [check_time |-> IsoFormat(0)]}

\* tracks uploaded over the stored zones: one crossing the polygon [3,5] and
\* one that only reaches its buffer ring
SeededUploads == {LineString(<<0, 4>>), LineString(<<0, 2>>)}

NextSeeded ==
    \/ \E g \in SeededUploads : upload_route("u1", g)
    \/ \E t \in upload_tasks, now \in ClockReadings : UploadFanoutFindZones(t, now)
    \/ \E t \in upload_tasks : UploadFanoutInsert(t)
    \/ \E t \in upload_tasks : UploadFanoutInsertFails(t)
    \/ \E r \in CheckRoutes, c \in CheckTimes, now \in ClockReadings :
          check_intersection(r @@ c, now)

SpecSeeded == InitSeeded /\ [][NextSeeded]_vars

\* ---------------------------- the fan-outs and the on-demand check together
\* the requests of NextRace and, at any moment, a POST /check-intersection
NextEngine ==
    \/ NextRace
    \/ \E r \in CheckRoutes, c \in CheckTimes, now \in ClockReadings :
          check_intersection(r @@ c, now)

SpecEngine == Init /\ [][NextEngine]_vars

\* --------------------------------------------- claims on the two fan-outs
\* both fan-outs that can see the pair have ended, none of them with a failed
\* insert for it
PairSettled(r, z) ==
    /\ \A t \in zone_tasks : t.zone.id # z.id
    /\ \A t \in upload_tasks : t.route.id # r.id
    /\ \A e \in fanout_log :
          (e.route.id = r.id /\ e.zone.id = z.id) => e.failed = {}

OwnerNotified(r, z) ==
    \E n \in notifications : /\ n.user_id = r.user_id
                              /\ n.data.route_id = r.id
                              /\ n.data.zone_id = z.id

\* C27: an authenticated user's route that is Contained in or intersects a
\* created zone whose end_time is not before the upload fan-out's clock has,
\* once the zone's and the route's fan-out have ended without a failed insert,
\* at least one notification of its owner for the pair, in every interleaving.
C27_NoMissedConflict ==
    \A r \in SeqToSet(routes), z \in SeqToSet(zones) :
        (/\ r.user_id # "anonymous"
         /\ \A now \in ClockReadings : StrLeq(IsoFormat(now), z.end_time)
         /\ SpecVerdict(r.geometry, z) \in {"Contained", "Intersects"}
         /\ PairSettled(r, z))
          => OwnerNotified(r, z)

\* the same for zones stored with a buffer distance that is not negative
NoMissedConflictNonNegative ==
    \A r \in SeqToSet(routes), z \in SeqToSet(zones) :
        (/\ z.buffer_meters >= 0
         /\ r.user_id # "anonymous"
         /\ \A now \in ClockReadings : StrLeq(IsoFormat(now), z.end_time)
         /\ SpecVerdict(r.geometry, z) \in {"Contained", "Intersects"}
         /\ PairSettled(r, z))
          => OwnerNotified(r, z)

\* a step of a fan-out task: the task leaves its position
FanoutStep ==
    (zone_tasks \ zone_tasks') \cup (upload_tasks \ upload_tasks') # {}

\* C21: a step of a fan-out run changes no zone, route or favorite document
\* and writes nothing but one more notification; the on-demand check writes
\* nothing; and no step of either changes a stored buffered geometry.
C21_EngineFrame ==
    [][/\ FanoutStep =>
            /\ zones' = zones
            /\ routes' = routes
            /\ favorites' = favorites
            /\ notifications \subseteq notifications'
            /\ Cardinality(notifications' \ notifications) <= 1
       /\ call' # call =>
            /\ zones' = zones
            /\ routes' = routes
            /\ favorites' = favorites
            /\ notifications' = notifications
            /\ zone_tasks' = zone_tasks
            /\ upload_tasks' = upload_tasks
       /\ (FanoutStep \/ call' # call) =>
            \A i \in 1..Len(zones) :
                /\ i <= Len(zones')
                /\ zones'[i].buffered_geometry = zones[i].buffered_geometry
      ]_vars

\* both fan-outs have written a notification and the on-demand check has
\* answered with a conflict for the stored zone
C21_Witness ==
    /\ call.pc = "returned"
    /\ call.conflicts # <<>>
    /\ \E n \in notifications : n.type = "zone_conflict"
    /\ \E n \in notifications : n.type = "route_warning"

\* --------------------------------------- claims on the seeded specification
WellFormed(z) == z.geometry.valid /\ z.buffered_geometry.valid

\* the verdict of a pair; a zone whose geometry raises gives no verdict
PairVerdict(route_shape, z) ==
    IF ~WellFormed(z) THEN "None" ELSE SpecVerdict(route_shape, z)

Answered == call.pc = "returned" /\ call.status = 200

\* the uploads whose fan-out task has run to its end
FannedOut == {r \in SeqToSet(routes) :
                /\ r.user_id # "anonymous"
                /\ \A t \in upload_tasks : t.route.id # r.id}

UploadEntries(r, z) ==
    {e \in fanout_log : e.kind = "upload" /\ e.route.id = r.id /\ e.zone.id = z.id}

\* C11: a zone whose geometry raises contributes no conflict and no
\* notification, and every other zone of the batch, before and after it, gets
\* the result it gets in a batch without the malformed zone: in the list the
\* on-demand check returns and in the loop of the upload fan-out.
C11_PerPairIsolation ==
    /\ Answered =>
          /\ call.conflicts =
                 check_route_against_zones(call.route_shape,
                                           SelectSeq(call.active_zones, WellFormed))
          /\ \A z \in SeqToSet(call.active_zones) :
                IF WellFormed(z)
                THEN [i \in 1..Len(ZoneConflicts(call.route_shape, z)) |->
                         ZoneConflicts(call.route_shape, z)[i]]
                     = SelectSeq(call.conflicts, LAMBDA c : c.zone_id = z.id)
                ELSE \A i \in 1..Len(call.conflicts) : call.conflicts[i].zone_id # z.id
    /\ \A r \in FannedOut, now \in ClockReadings :
          \A z \in SeqToSet(UpcomingZones(zones, IsoFormat(now))) :
              /\ Cardinality(UploadEntries(r, z)) = 1
              /\ \A e \in UploadEntries(r, z) :
                    IF WellFormed(z)
                    THEN /\ e.conflict_type =
                               UploadConflictType(r.geometry, z.geometry,
                                                  z.buffered_geometry)
                         /\ Cardinality(NotifsFor("route_warning", r.id, z.id))
                               = IF e.conflict_type # "none" /\ e.failed = {}
                                 THEN 1 ELSE 0
                    ELSE /\ e.conflict_type = "none"
                         /\ NotifsFor("route_warning", r.id, z.id) = {}

\* the on-demand check has returned a conflict with the zone that follows a
\* malformed one, and an upload fan-out has notified of the same zone
C11_Witness ==
    /\ Answered
    /\ Len(call.active_zones) = 2
    /\ ~WellFormed(call.active_zones[1])
    /\ \E i \in 1..Len(call.conflicts) : call.conflicts[i].zone_id = 2
    /\ \E r \in FannedOut : NotifsFor("route_warning", r.id, 2) # {}

\* C14: the summary message follows the worst classification returned:
\* CRITICAL iff some entry is contained, WARNING iff none is contained and some
\* is intersects, CAUTION iff there are entries and all are buffer, and a safe
\* message iff there is no entry; no active zone is an answer, not an error.
C14_WorstCaseMessage ==
    LET types == {call.conflicts[i].conflict_type : i \in 1..Len(call.conflicts)}
    IN  /\ Answered =>
              /\ (call.safe_message = "CRITICAL") <=> ("contained" \in types)
              /\ (call.safe_message = "WARNING")
                    <=> ("contained" \notin types /\ "intersects" \in types)
              /\ (call.safe_message = "CAUTION")
                    <=> (types # {} /\ types = {"buffer"})
              /\ (call.safe_message \in {"SAFE", "NO_ACTIVE_ZONES"}) <=> (types = {})
              /\ (call.safe_message = "NO_ACTIVE_ZONES") <=> (call.active_zones = <<>>)
        /\ (call.pc = "raised" /\ call.detail = "Invalid route geometry") =>
              ActiveZones(zones, call.check_time) # <<>>

\* a route contained in one active zone and crossing another: CRITICAL
C14_Witness ==
    /\ Answered
    /\ \E i \in 1..Len(call.conflicts) : call.conflicts[i].conflict_type = "contained"
    /\ \E i \in 1..Len(call.conflicts) : call.conflicts[i].conflict_type = "intersects"
    /\ call.safe_message = "CRITICAL"

\* C15: the zones listed are exactly the zones with start_time <= check_time
\* <= end_time whose verdict against the route is not None, and the intersects
\* flag says whether the list is non-empty.
C15_ListedZones ==
    Answered =>
        /\ {call.conflicts[i].zone_id : i \in 1..Len(call.conflicts)}
              = {z.id : z \in {z \in SeqToSet(zones) :
                                /\ StrLeq(z.start_time, call.check_time)
                                /\ StrLeq(call.check_time, z.end_time)
                                /\ PairVerdict(call.route_shape, z) # "None"}}
        /\ call.intersects <=> call.conflicts # <<>>

Canonical(ts) == ts = IsoFormat(InstantOf(ts))

CanonicalZone(z) == Canonical(z.start_time) /\ Canonical(z.end_time)

\* C16: over canonically formatted timestamps the active filter selects
\* exactly the zones with start <= instant <= end, both ends included, and the
\* upcoming filter exactly the zones with end >= instant, a zone that starts
\* later included; the active zones of an instant are among its upcoming
\* zones, and the upload fan-out considers no zone that ended before its query.
C16_ActivityFilters ==
    /\ (Answered /\ Canonical(call.check_time)) =>
          \A z \in {z \in SeqToSet(zones) : CanonicalZone(z)} :
              (z \in SeqToSet(call.active_zones))
                <=> (/\ InstantOf(z.start_time) <= InstantOf(call.check_time)
                     /\ InstantOf(call.check_time) <= InstantOf(z.end_time))
    /\ \A e \in {e \in fanout_log : e.kind = "upload" /\ CanonicalZone(e.zone)} :
          \E now \in ClockReadings : InstantOf(e.zone.end_time) >= now
    /\ \A r \in FannedOut, now \in ClockReadings :
          \A z \in {z \in SeqToSet(zones) : CanonicalZone(z)} :
              InstantOf(z.end_time) >= now => UploadEntries(r, z) # {}
    /\ \A now \in ClockReadings :
          SeqToSet(ActiveZones(zones, IsoFormat(now)))
             \subseteq SeqToSet(UpcomingZones(zones, IsoFormat(now)))
    /\ Answered =>
          SeqToSet(call.active_zones)
             \subseteq SeqToSet(UpcomingZones(zones, call.check_time))

\* an answer that keeps a zone starting at the check instant and leaves out a
\* zone that starts later, and an upload fan-out that has looked at that zone
C16_Witness ==
    /\ Answered
    /\ \E i \in 1..Len(call.active_zones) :
          call.active_zones[i].start_time = call.check_time
    /\ Len(call.active_zones) < Len(zones)
    /\ \E r \in FannedOut, z \in SeqToSet(zones), now \in ClockReadings :
          /\ CanonicalZone(z)
          /\ InstantOf(z.start_time) > now
          /\ UploadEntries(r, z) # {}

\* C30: an unknown route_id gives 404 and a request with neither route_id nor
\* route_geometry gives 400, whatever the zones are; otherwise, with no zone
\* active at check_time the answer is intersects = false with the
\* no-active-zones message, the geometry not being parsed, so that a malformed
\* route geometry gives 400 only when a zone is active at check_time.
C30_CheckOrder ==
    [][call' # call =>
        LET req == call'.req
            by_id == "route_id" \in DOMAIN req
            unknown == by_id /\ \A r \in SeqToSet(routes) : r.id # req.route_id
            nothing == ~by_id /\ "route_geometry" \notin DOMAIN req
            none_active == ActiveZones(zones, call'.check_time) = <<>>
            malformed == IF by_id THEN FALSE ELSE ~req.route_geometry.valid
        IN  /\ unknown <=> (call'.pc = "raised" /\ call'.status = 404)
            /\ nothing <=> (/\ call'.pc = "raised"
                             /\ call'.status = 400
                             /\ call'.detail = "No route geometry provided")
            /\ (~unknown /\ ~nothing /\ none_active)
                  => (/\ call'.pc = "returned"
                      /\ call'.status = 200
                      /\ call'.safe_message = "NO_ACTIVE_ZONES"
                      /\ ~call'.intersects
                      /\ call'.conflicts = <<>>)
            /\ (call'.pc = "raised" /\ call'.detail = "Invalid route geometry")
                  <=> (~unknown /\ ~nothing /\ malformed /\ ~none_active)
      ]_vars

\* a malformed geometry answered with the no-active-zones message although
\* zones are stored, and no zone active
C30_Witness ==
    /\ Answered
    /\ "req" \in DOMAIN call
    /\ "route_geometry" \in DOMAIN call.req
    /\ call.req.route_geometry = MalformedLine
    /\ zones # <<>>
    /\ call.safe_message = "NO_ACTIVE_ZONES"

\* ------------------------------------------------------ the inbox in use
\* one zone is stored; two users upload tracks that conflict with it, the
\* upload fan-out notifies them, and both users work on their inboxes
InboxUsers == {"u1", "u2"}
InboxUploads == {LineString(<<0, 4>>), LineString(<<3, 4>>)}

\* the ids a client sends: those of the stored notifications and one that is
\* nobody's
NotificationIds == {NotifId(n) : n \in notifications}
UnknownId == [id |-> 0]

InitInbox ==
    /\ zones = <<SeedZone(1, <<Polygon(3, 5), 2>>, <<IsoFormat(0), IsoFormat(2)>>)>>
    /\ routes = <<>>
    /\ favorites = {}
    /\ notifications = {}
    /\ zone_tasks = {}
    /\ upload_tasks = {}
    /\ fanout_log = {}
    /\ update_calls = {}
    /\ call = NoCall

NextInbox ==
    \/ \E u \in InboxUsers, g \in InboxUploads : upload_route(u, g)
    \/ \E t \in upload_tasks, now \in ClockReadings : UploadFanoutFindZones(t, now)
    \/ \E t \in upload_tasks : UploadFanoutInsert(t)
    \/ \E u \in InboxUsers : get_notifications(u)
    \/ \E u \in InboxUsers : get_unread_count(u)
    \/ \E u \in InboxUsers, id \in NotificationIds : mark_notification_read(id, u)
    \/ \E u \in InboxUsers : mark_notification_read(UnknownId, u)
    \/ \E u \in InboxUsers : mark_all_read(u)
    \/ \E u \in InboxUsers, id \in NotificationIds : delete_notification(id, u)
    \/ \E u \in InboxUsers : delete_notification(UnknownId, u)

SpecInbox == InitInbox /\ [][NextInbox]_vars

\* a step of one of the notification handlers, and its caller
InboxStep == call' # call /\ "op" \in DOMAIN call'

\* the stored notifications that were not stored before the step
Appended == {n \in notifications' : \A m \in notifications : NotifId(m) # NotifId(n)}

UnreadCount(ns, user) == Cardinality({n \in ns : n.user_id = user /\ ~n.read})

\* C25: a notification is unread when it is created; get_unread_count returns
\* the number of the caller's notifications with read = false; marking one of
\* the caller's unread notifications as read lowers that number by one; after
\* mark_all_read the number is 0, and it grows again only when a notification
\* is appended for the user.
C25_UnreadBookkeeping ==
    [][/\ \A n \in Appended : ~n.read
       /\ (InboxStep /\ call'.op = "get_unread_count")
            => call'.count = UnreadCount(notifications, call'.user)
       /\ (InboxStep /\ call'.op = "mark_notification_read" /\ call'.status = 200)
            => UnreadCount(notifications', call'.user)
                 = UnreadCount(notifications, call'.user) - 1
       /\ (InboxStep /\ call'.op = "mark_all_read")
            => UnreadCount(notifications', call'.user) = 0
       /\ \A u \in InboxUsers :
            UnreadCount(notifications', u) > UnreadCount(notifications, u)
              => \E n \in Appended : n.user_id = u
      ]_vars

\* read-all has just emptied a count of two
C25_Witness ==
    /\ "op" \in DOMAIN call
    /\ call.op = "mark_all_read"
    /\ Cardinality({n \in notifications : n.user_id = call.user /\ n.read}) = 2

\* C29: a notification handler called by user u returns and changes only
\* notifications whose user_id is u: the notifications of every other user
\* exist and are read or unread as before, and mark_notification_read with the
\* id of another user's notification answers 404.
C29_InboxIsolation ==
    [][InboxStep =>
        /\ {n \in notifications' : n.user_id # call'.user}
             = {n \in notifications : n.user_id # call'.user}
        /\ call'.op = "get_notifications"
             => call'.result = {n \in notifications : n.user_id = call'.user}
        /\ call'.op = "mark_notification_read"
             => ((\E n \in notifications : /\ NotifId(n) = call'.notification_id
                                           /\ n.user_id # call'.user)
                   => call'.status = 404)
      ]_vars

\* a user has asked to mark the unread notification of another user: 404, and
\* the notification is still unread
C29_Witness ==
    /\ "op" \in DOMAIN call
    /\ call.op = "mark_notification_read"
    /\ call.status = 404
    /\ \E n \in notifications : /\ NotifId(n) = call.notification_id
                                /\ n.user_id # call.user
                                /\ ~n.read

\* ----------------------------------- stored zones and routes being maintained
\* One zone of the admin and one track each of two users, none of them in
\* conflict with the zone, are stored and every fan-out has ended.  Route id 3
\* and zone id 2 are ids nothing is stored under.
MaintenanceUsers == {Admin, "u1", "u2"}
MaintenanceRouteIds == {1, 2, 3}
MaintenanceZoneIds == {1, 2}

\* ZoneUpdate bodies: a polygon that reaches the first track, a buffer that
\* reaches it, an earlier end
MaintenanceEdits == {[geometry |-> Polygon(2, 4)], [buffer_meters |-> 2],
                     [end_time |-> IsoFormat(1)]}

InitMaintenance ==
    /\ zones = <<SeedZone(1, <<Polygon(3, 5), 0>>, <<IsoFormat(0), IsoFormat(2)>>)>>
    /\ routes = <<RouteDoc(1, LineString(<<0, 2>>), "u1"),
                  RouteDoc(2, LineString(<<8, 9>>), "u2")>>
    /\ favorites = {}
    /\ notifications = {}
    /\ zone_tasks = {}
    /\ upload_tasks = {}
    /\ fanout_log = {}
    /\ update_calls = {}
    /\ call = NoCall

NextMaintenance ==
    \/ \E d \in MaintenanceEdits : update_zone(Admin, 1, d)
    \/ \E u \in update_calls : UpdateZoneWrite(u)
    \/ \E u \in MaintenanceUsers, i \in MaintenanceZoneIds : delete_zone(i, u)
    \/ \E u \in Favoriters, i \in MaintenanceRouteIds : add_favoriteRequest(i, u)
    \/ \E u \in Favoriters, i \in MaintenanceRouteIds : remove_favorite(i, u)
    \/ \E u \in Favoriters, i \in MaintenanceRouteIds : toggle_route_visibility(i, u)
    \/ \E u \in Favoriters, i \in MaintenanceRouteIds : delete_route(i, u)

SpecMaintenance == InitMaintenance /\ [][NextMaintenance]_vars

\* the (user, route) pair an answered favorites request is about
Pair(c) == [user_id |-> c.user, route_id |-> c.id]

FavoritesStep(op) ==
    /\ "op" \in DOMAIN call'
    /\ call'.op = op
    /\ call' # call \/ favorites' # favorites

\* C26: adding a route of the routes collection that the user has not
\* favorited answers 200 and puts exactly that pair into the favorites, so the
\* route is among the user's favorite ids; removing a favorited pair answers
\* 200 and takes exactly that pair out, so a removal after an addition gives
\* back the set from before the addition.  Adding a pair that is stored is
\* rejected with 400, adding a route that does not exist with 404, removing a
\* pair that is not stored with 404, and a rejected request leaves the
\* favorites as they were.
C26_FavoritesRoundTrip ==
    [][/\ FavoritesStep("add_favorite") =>
            LET p == Pair(call')
                found == \E r \in SeqToSet(routes) : r.id = p.route_id
            IN  /\ call'.status = (IF ~found THEN 404
                                   ELSE IF p \in favorites THEN 400 ELSE 200)
                /\ call'.status = 200 =>
                      /\ favorites' = favorites \cup {p}
                      /\ favorites' \ {p} = favorites
                      /\ p \in favorites'
                /\ call'.status # 200 => favorites' = favorites
       /\ FavoritesStep("remove_favorite") =>
            LET p == Pair(call')
            IN  /\ call'.status = (IF p \in favorites THEN 200 ELSE 404)
                /\ call'.status = 200 =>
                      /\ favorites' = favorites \ {p}
                      /\ favorites' \cup {p} = favorites
                      /\ p \notin favorites'
                /\ call'.status # 200 => favorites' = favorites
      ]_vars

\* a removal has just been answered 200 while the caller keeps another
\* favorite and the other user keeps theirs
C26_Witness ==
    /\ "op" \in DOMAIN call
    /\ call.op = "remove_favorite"
    /\ call.status = 200
    /\ Pair(call) \notin favorites
    /\ call.id \notin get_favorite_ids(call.user)
    /\ get_favorite_ids(call.user) # {}
    /\ \E f \in favorites : f.user_id # call.user

\* C28: a step that appends neither a zone nor a route (update_zone,
\* delete_zone, add_favorite, remove_favorite, toggle_route_visibility and
\* delete_route, answered or rejected) starts no fan-out task and leaves the
\* notifications as they are.
C28_OnlyCreationAndUploadFanOut ==
    [][(Len(zones') <= Len(zones) /\ Len(routes') <= Len(routes)) =>
          /\ zone_tasks' = zone_tasks
          /\ upload_tasks' = upload_tasks
          /\ notifications' = notifications
      ]_vars

\* the zone has been edited so that a stored track now conflicts with it, a
\* track has been made private and a favorite added, and nobody has been
\* notified
C28_Witness ==
    /\ update_calls = {}
    /\ \E z \in SeqToSet(zones), r \in SeqToSet(routes) :
          /\ z.geometry = Polygon(2, 4)
          /\ SpecVerdict(r.geometry, z) # "None"
          /\ ~r.is_public
    /\ favorites # {}
    /\ notifications = {}
    /\ zone_tasks = {}
    /\ upload_tasks = {}

\* ------------------------------------------ the classifier on bounded inputs
\* routes: every two-point line (either direction, zero length included) and
\* every strictly ascending three-point line over the coordinates
ClassifierRoutes ==
    {LineString(<<a, b>>) : a \in Coords, b \in Coords}
    \cup {LineString(<<t[1], t[2], t[3]>>) :
            t \in {t \in Coords \X Coords \X Coords : t[1] < t[2] /\ t[2] < t[3]}}

\* zone documents as create_zone stores them: a polygon of non-zero extent and
\* the buffer computed from it
StoredZone(id, lo, hi, m) ==
    ZoneDoc(id, Polygon(lo, hi), compute_buffer(Polygon(lo, hi), m), m,
            IsoFormat(0), IsoFormat(0), Admin)

ClassifierZones(id) ==
    {StoredZone(id, lo, hi, m) : lo \in Coords, hi \in Coords, m \in BufferMeters}

ClassifierBatches ==
    {<<z>> : z \in {z \in ClassifierZones(1) : z.geometry.lo < z.geometry.hi}}
    \cup {<<z, w>> : z \in {z \in ClassifierZones(1) : z.geometry.lo < z.geometry.hi},
                     w \in {StoredZone(2, 2, 4, 1), StoredZone(2, 0, 1, 0)}}

InitClassify ==
    /\ InitDb
    /\ call \in {[pc |-> "called", route_shape |-> r, active_zones |-> zs,
                  conflicts |-> <<>>] :
                    r \in ClassifierRoutes, zs \in ClassifierBatches}

Classify ==
    /\ call.pc = "called"
    /\ call' = [call EXCEPT
                    !.pc = "returned",
                    !.conflicts = check_route_against_zones(call.route_shape,
                                                            call.active_zones)]
    /\ UNCHANGED db_vars

NextClassify == Classify

SpecClassify == InitClassify /\ [][NextClassify]_vars

\* one raw polygon stored twice, the second time with a buffer distance that
\* is not smaller: the two zones of the batch differ in the buffer only
MonotoneBatches ==
    {<<StoredZone(1, lo, hi, d1), StoredZone(2, lo, hi, d2)>> :
        lo \in Coords, hi \in Coords, d1 \in BufferMeters, d2 \in BufferMeters}

InitMonotone ==
    /\ InitDb
    /\ call \in {[pc |-> "called", route_shape |-> r, active_zones |-> zs,
                  conflicts |-> <<>>] :
                    r \in ClassifierRoutes,
                    zs \in {b \in MonotoneBatches :
                              /\ b[1].geometry.lo < b[1].geometry.hi
                              /\ b[1].buffer_meters <= b[2].buffer_meters}}

SpecMonotone == InitMonotone /\ [][NextClassify]_vars

\* two calls in a row for one route: the first over one stored zone, the
\* second over a batch that holds the same zone after another zone, before
\* another zone, or alone
RepeatBatches(z) ==
    {<<z>>}
    \cup {<<w, z>> : w \in {StoredZone(2, 2, 4, 1), StoredZone(2, 0, 6, 0)}}
    \cup {<<z, w>> : w \in {StoredZone(2, 2, 4, 1), StoredZone(2, 0, 6, 0)}}

InitRepeat ==
    /\ InitDb
    /\ call \in {[pc |-> "called", route_shape |-> r, active_zones |-> <<zs[1]>>,
                  conflicts |-> <<>>, next_zones |-> zs[2]] :
                    r \in ClassifierRoutes,
                    zs \in UNION {{<<z, b>> : b \in RepeatBatches(z)} :
                                   z \in {z \in ClassifierZones(1) :
                                             z.geometry.lo < z.geometry.hi}}}

\* the second call: the first result is kept aside as earlier_conflicts
ClassifyAgain ==
    /\ call.pc = "returned"
    /\ "next_zones" \in DOMAIN call
    /\ call' = [pc |-> "returned_again", route_shape |-> call.route_shape,
                active_zones |-> call.next_zones,
                conflicts |-> check_route_against_zones(call.route_shape,
                                                        call.next_zones),
                earlier_zones |-> call.active_zones,
                earlier_conflicts |-> call.conflicts]
    /\ UNCHANGED db_vars

NextRepeat == Classify \/ ClassifyAgain

SpecRepeat == InitRepeat /\ [][NextRepeat]_vars

\* ------------------------------------------------- claims on the classifier
Returned == call.pc = "returned"

BatchZones == {call.active_zones[i] : i \in 1..Len(call.active_zones)}

ConflictsOf(z) ==
    {i \in 1..Len(call.conflicts) : call.conflicts[i].zone_id = z.id}

\* the verdict the returned list gives for zone z ("none": no entry)
VerdictOf(z) ==
    IF ConflictsOf(z) = {}
    THEN "none"
    ELSE call.conflicts[CHOOSE i \in ConflictsOf(z) : TRUE].conflict_type

OverlapOf(z) ==
    IF ConflictsOf(z) = {}
    THEN 0
    ELSE call.conflicts[CHOOSE i \in ConflictsOf(z) : TRUE].overlap_percentage

RouteContainedIn(z) ==
    Contains(z.geometry, call.route_shape)
    \/ Contains(z.buffered_geometry, call.route_shape)

\* overlap of the called route with polygon p: min(100, round(len / eff * 100, 1))
SpecOverlap(p) ==
    Min(RoundTenths(IntersectionLength(call.route_shape, p),
                    IF RouteLength(call.route_shape) > 0
                    THEN RouteLength(call.route_shape) ELSE 1),
        1000)

\* C7: a route contained in the raw or in the buffered polygon of a zone gets
\* exactly one entry for that zone, of type contained with overlap 100.0;
\* intersects and buffer are reported only for a route that is not contained.
C7_ContainedPrecedence ==
    Returned =>
        \A z \in BatchZones :
            /\ RouteContainedIn(z) =>
                   /\ Cardinality(ConflictsOf(z)) = 1
                   /\ VerdictOf(z) = "contained"
                   /\ OverlapOf(z) = 1000
            /\ VerdictOf(z) \in {"intersects", "buffer"} => ~RouteContainedIn(z)

\* a route wholly in the buffer ring, away from the raw polygon, was classified
C7_Witness ==
    /\ Returned
    /\ \E z \in BatchZones :
          /\ ~Intersects(call.route_shape, z.geometry)
          /\ Contains(z.buffered_geometry, call.route_shape)
          /\ VerdictOf(z) = "contained"

\* C8: the overlap of an intersects verdict is measured on the raw polygon.
C8_IntersectsOverlapOnRaw ==
    Returned =>
        \A z \in BatchZones :
            VerdictOf(z) = "intersects" => OverlapOf(z) = SpecOverlap(z.geometry)

\* C9: for a route that is not contained the verdict is intersects iff the
\* route meets the raw polygon, buffer iff it misses the raw polygon and meets
\* the buffered one (overlap measured on the buffered polygon); every zone gets
\* at most one verdict and a route meeting the raw polygon is never none.
C9_VerdictByRawIntersection ==
    Returned =>
        \A z \in BatchZones :
            /\ Cardinality(ConflictsOf(z)) <= 1
            /\ ~RouteContainedIn(z) =>
                /\ VerdictOf(z) = "intersects"
                       <=> Intersects(call.route_shape, z.geometry)
                /\ VerdictOf(z) = "buffer"
                       <=> (~Intersects(call.route_shape, z.geometry)
                            /\ Intersects(call.route_shape, z.buffered_geometry))
                /\ VerdictOf(z) = "buffer"
                       => OverlapOf(z) = SpecOverlap(z.buffered_geometry)
            /\ Intersects(call.route_shape, z.geometry) => VerdictOf(z) # "none"

\* C17: every overlap percentage of a returned entry lies between 0 and 100;
\* it is 100.0 for a contained route and otherwise the rounded share of the
\* route's length, at most 100, where a route of length 0 counts as length 1:
\* a route of two coincident points is classified and gets a defined overlap.
C17_OverlapRange ==
    Returned =>
        /\ \A i \in 1..Len(call.conflicts) :
              LET c == call.conflicts[i]
              IN  /\ c.overlap_percentage \in 0..1000
                  /\ c.conflict_type = "contained" => c.overlap_percentage = 1000
                  /\ (c.conflict_type # "contained"
                        /\ RouteLength(call.route_shape) = 0)
                       => c.overlap_percentage = 0
                  /\ (c.conflict_type # "contained"
                        /\ RouteLength(call.route_shape) > 0)
                       => \E n \in 0..RouteLength(call.route_shape) :
                             c.overlap_percentage
                               = RoundTenths(n, RouteLength(call.route_shape))
        /\ \A z \in BatchZones :
              Intersects(call.route_shape, z.buffered_geometry)
                => ConflictsOf(z) # {}

\* a route of two coincident points on the edge of a buffered zone: classified,
\* not contained, overlap 0
C17_Witness ==
    /\ Returned
    /\ RouteLength(call.route_shape) = 0
    /\ \E i \in 1..Len(call.conflicts) :
          /\ call.conflicts[i].conflict_type # "contained"
          /\ call.conflicts[i].overlap_percentage = 0

\* the order None < BufferOnly < Intersects < Contained on returned verdicts
VerdictRank(conflict_type) ==
    IF conflict_type = "none" THEN 0
    ELSE IF conflict_type = "buffer" THEN 1
    ELSE IF conflict_type = "intersects" THEN 2
    ELSE 3

\* C18: for one route and one raw polygon, the verdict obtained with the
\* polygon buffered by the larger of two distances is never lower, in the
\* order None < BufferOnly < Intersects < Contained, than the verdict obtained
\* with the polygon buffered by the smaller one.
C18_MonotoneInBuffer ==
    Returned =>
        \A z \in BatchZones, w \in BatchZones :
            (z.geometry = w.geometry /\ z.buffer_meters <= w.buffer_meters)
              => VerdictRank(VerdictOf(z)) <= VerdictRank(VerdictOf(w))

\* the larger buffer has raised the verdict of the same route and polygon
C18_Witness ==
    /\ Returned
    /\ \E z \in BatchZones, w \in BatchZones :
          /\ z.geometry = w.geometry
          /\ 0 <= z.buffer_meters
          /\ z.buffer_meters < w.buffer_meters
          /\ VerdictOf(z) = "none"
          /\ VerdictOf(w) = "buffer"

\* C23: for a buffer distance d >= 0 the buffered polygon covers the raw
\* polygon, and for d = 0 it is the raw polygon; so for every zone stored with
\* buffer_meters >= 0 a route that intersects the raw polygon intersects the
\* buffered polygon as well.
C23_BufferCovers ==
    \A z \in BatchZones :
        z.buffer_meters >= 0 =>
            /\ z.buffered_geometry.lo <= z.geometry.lo
            /\ z.buffered_geometry.hi >= z.geometry.hi
            /\ z.buffer_meters = 0 => z.buffered_geometry = z.geometry
            /\ Intersects(call.route_shape, z.geometry)
                  => Intersects(call.route_shape, z.buffered_geometry)
            /\ Contains(z.geometry, call.route_shape)
                  => Contains(z.buffered_geometry, call.route_shape)
            /\ (Returned /\ Intersects(call.route_shape, z.geometry))
                  => ConflictsOf(z) # {}

\* a route that meets the raw polygon of a zone stored with a positive buffer
\* and one stored with buffer 0, classified against both
C23_Witness ==
    /\ Returned
    /\ \E z \in BatchZones, w \in BatchZones :
          /\ z.buffer_meters > 0
          /\ z.buffered_geometry # z.geometry
          /\ Intersects(call.route_shape, z.geometry)
          /\ w.buffer_meters = 0
          /\ Intersects(call.route_shape, w.geometry)

\* C24: the entry (verdict and overlap) returned for a route and a zone is the
\* same in two calls, whatever other zone the second batch holds, before or
\* after the zone, and whatever the first call returned.
C24_Deterministic ==
    call.pc = "returned_again" =>
        \A z \in SeqToSet(call.earlier_zones) :
            SelectSeq(call.conflicts, LAMBDA c : c.zone_id = z.id)
              = SelectSeq(call.earlier_conflicts, LAMBDA c : c.zone_id = z.id)

\* the zone has a conflict in both calls and comes second in the second batch,
\* after a zone that conflicts too
C24_Witness ==
    /\ call.pc = "returned_again"
    /\ call.earlier_conflicts # <<>>
    /\ Len(call.conflicts) = 2
    /\ call.conflicts[2].zone_id = call.earlier_zones[1].id

====
